---------------------------- MODULE Spec2Model ----------------------------
(***************************************************************************)
(* Ingestion and metadata normalization pipeline of the image catalog:     *)
(* the intake batch (01_image_processor.py, ImageProcessor), the EXIF      *)
(* normalization batch (02_exif_extractor.py, ExifExtractThread) and the   *)
(* catalog helpers of exif_utils.                                          *)
(***************************************************************************)
EXTENDS Integers, Sequences, FiniteSets, TLC

VARIABLES
    fs,             \* the files on disk: path -> bytes, DOMAIN fs = the existing files
    dirs,           \* the existing directories
    now,            \* the clock, in milliseconds
    images,         \* the catalog's durable rows of table images, in id order
    pending,        \* rows inserted on the intake connection, not yet committed
    image_files,    \* ImageProcessor.image_files
    output_dir,     \* the output directory of the request: ImageProcessor.output_dir
                    \* (ImageProcessorApp.output_dir if the request was rejected)
    rename_option,  \* ImageProcessor.rename_option: 0 none, 1 timestamp, 2 hash
    prefix_option,  \* ImageProcessor.prefix_option: "" or a tag
    keep_original,  \* ImageProcessor.keep_original
    pc,             \* position of the intake thread in run()
    idx,            \* the loop index i of run()
    error_dir,      \* the local error_dir of run()
    hist,           \* what each processed file went through (observation only)
    process_btn,    \* the controls of ImageProcessorApp that start a batch are enabled
    finished,       \* how often the intake thread has emitted processing_finished
    progress,       \* the value the intake thread emitted last by update_progress
    mode,           \* ExifExtractThread.mode: "all" or "selected"
    image_ids,      \* ExifExtractThread.image_ids
    save_csv,       \* ExifExtractThread.save_csv
    batch_images,   \* the local list images of ExifExtractThread.run
    npc,            \* position of the normalization thread in run()
    nidx,           \* the loop index i of ExifExtractThread.run
    caught,         \* the except clause of the loop body ran for the record
                    \* processed last (observation only)
    extract_btn,    \* the controls of ExifExtractorApp that start a batch are enabled
    nprogress,      \* the value the normalization thread emitted last by
                    \* update_progress
    log,            \* update_log notifications of the batch: ids left out of the
                    \* selection, and the failure that ended the batch
    cpc,            \* position of the caller in load_image_list
    unprocessed_count,  \* the local unprocessed_count of load_image_list
    processed_count,    \* the local processed_count of load_image_list
    dirty,          \* a counter failed or a write was committed since the counters
                    \* were first read (observation only)
    row,            \* a row the completeness predicates are applied to
    verdict,        \* what the completeness predicates said of it
    exif_in,        \* the dict all_exif a set of tags is formatted from
    exif_out,       \* the columns extract_core_exif made of it, <<>> before
    returned        \* how the last call of a catalog helper went: what the
                    \* catalog did and how the call ended; NULL before any

intakeVars == <<now, pending, image_files, output_dir, rename_option,
                prefix_option, keep_original, pc, idx, error_dir, hist, dirs,
                process_btn, finished, progress>>

normVars == <<mode, image_ids, save_csv, batch_images, npc, nidx, caught, log,
             extract_btn, nprogress>>

callerVars == <<cpc, unprocessed_count, processed_count, dirty>>

rowVars == <<row, verdict, exif_in, exif_out, returned>>

vars == <<fs, images, intakeVars, normVars, callerVars, rowVars>>

batchParams == <<image_files, output_dir, rename_option, prefix_option,
                 keep_original>>

---------------------------------------------------------------------------
(* Bounds of the model *)

\* the longest list of source paths handed to one intake batch
MaxFiles == 2
\* the clock takes the values 0..MaxClock (milliseconds)
MaxClock == 0
\* the number of distinct digests the model's hash can produce
DigestSpace == 2

---------------------------------------------------------------------------
(* Values *)

\* Python None / SQL NULL.  A nullable value is NULL or Some(v), so that
\* values of any shape can be told from NULL.
NULL == {}
Some(v) == {v}

\* milliseconds per second: int(time.time() * 1000) against int(time.time())
MsPerSecond == 1000

\* A file name "<pre><stem>[_<n>]*<ext>": pre is the prefix tag, stem is
\* <<"orig", k>> (a name chosen by the user), <<"ts", t>> (the decimal
\* timestamp t) or <<"md5", d>> (the hex digest d), suf the "_<n>" parts.
Name(pre, stem, suf, ext) == [pre |-> pre, stem |-> stem, suf |-> suf, ext |-> ext]

\* A path: the directory's components and the file name in it.
Path(dir, name) == [dir |-> dir, name |-> name]

SrcDir == <<"src">>
OutDir == <<"out">>
Cwd == <<"cwd">>

\* os.path.join(d, "error")
JoinError(d) == Append(d, "error")

\* os.path.basename / os.path.dirname / os.path.splitext(name)[1]
basename(p) == p.name
dirname(p) == p.dir
splitext1(name) == name.ext

\* os.path.exists for a file path
Exists(f, p) == p \in DOMAIN f

\* f"{name}_{n}{ext}" for name, ext = os.path.splitext(file_name)
WithSuffix(name, n) == [name EXCEPT !.suf = Append(@, n)]

\* writing bytes b at path p (creating or overwriting it)
WriteFile(f, p, b) == [q \in DOMAIN f \cup {p} |-> IF q = p THEN b ELSE f[q]]

\* removing the file at path p
RemoveFile(f, p) == [q \in DOMAIN f \ {p} |-> f[q]]

\* hashlib.md5(bytes).hexdigest(): a function of the bytes alone with a finite
\* range, so that distinct bytes may share a digest
Md5(bytes) == bytes % DigestSpace

---------------------------------------------------------------------------
(* The files the batches are run on *)

FileA == Path(SrcDir, Name("", <<"orig", 1>>, <<>>, "jpg"))
FileB == Path(SrcDir, Name("", <<"orig", 2>>, <<>>, "jpg"))
FileC == Path(SrcDir, Name("", <<"orig", 1>>, <<>>, "png"))
\* a source file that is already named like the digest of FileA's bytes
FileE == Path(SrcDir, Name("", <<"md5", Md5(1)>>, <<>>, "jpg"))
\* a file already present in the output directory, named like a timestamp
OldT == Path(OutDir, Name("", <<"ts", 0>>, <<>>, "jpg"))

\* the files a batch may be given; FileC differs from FileA in its extension
\* only and FileE is named like a digest, which the names of the hash policy
\* alone depend on
Pool(option) == IF option = 2 THEN {FileA, FileB, FileC, FileE}
                ELSE {FileA, FileB}

Disk0 == (FileA :> 1) @@ (FileB :> 1) @@ (FileC :> 1) @@ (FileE :> 2)
         @@ (OldT :> 2)

Dirs0 == {SrcDir, OutDir, Cwd}


---------------------------------------------------------------------------
(* The catalog: table images *)

\* CREATE TABLE images: every column with its default
DefaultRow ==
    [id |-> 0, original_filename |-> NULL, file_name |-> NULL, file_path |-> {},
     preview_path |-> NULL, exif_csv_path |-> NULL, upload_time |-> 0,
     capture_time |-> NULL, width |-> NULL, height |-> NULL,
     camera_model |-> NULL, lens_model |-> NULL, focal_length |-> NULL,
     shutter_speed |-> NULL, aperture |-> NULL, iso |-> NULL,
     exposure_compensation |-> NULL, white_balance |-> NULL,
     gps_latitude |-> NULL, gps_longitude |-> NULL,
     status |-> "success", remark |-> NULL, error_message |-> NULL]

\* INSERT INTO images (cols) VALUES (...): the given columns over the defaults,
\* the id assigned by AUTOINCREMENT.  file_path holds the path as a one-element
\* set so that every row has the same shape.
InsertRow(rows, cols) ==
    Append(rows, [id |-> Len(images) + Len(rows) + 1] @@ cols @@ DefaultRow)

\* a row that was in the catalog before the batch
OldRow == [id |-> 1, original_filename |-> OldT.name, file_name |-> OldT.name,
           file_path |-> {OldT}, upload_time |-> 0] @@ DefaultRow

Images0 == <<OldRow>>

---------------------------------------------------------------------------
(* EXIF completeness of a record *)

\* the ten core EXIF columns and the canonical EXIF columns (core_exif)
CoreFields == {"capture_time", "camera_model", "width", "height",
               "focal_length", "shutter_speed", "aperture", "iso",
               "exposure_compensation", "white_balance"}
ExifFields == CoreFields \cup {"lens_model", "gps_latitude", "gps_longitude"}

\* get_unprocessed_images selecting every row of status success
SelectsEverySuccess(r) == r.status = "success"

\* the WHERE clause of get_unprocessed_images
SelectsUnprocessed(r) ==
    r.status = "success" /\
      (\/ r.capture_time = NULL \/ r.camera_model = NULL \/ r.width = NULL
       \/ r.height = NULL \/ r.focal_length = NULL \/ r.shutter_speed = NULL
       \/ r.aperture = NULL \/ r.iso = NULL \/ r.exposure_compensation = NULL
       \/ r.white_balance = NULL)

\* get_processed_count counting the rows that lack no core column, whatever
\* their status
CountsProcessedAnyStatus(r) ==
    /\ r.capture_time # NULL /\ r.camera_model # NULL /\ r.width # NULL
    /\ r.height # NULL /\ r.focal_length # NULL /\ r.shutter_speed # NULL
    /\ r.aperture # NULL /\ r.iso # NULL /\ r.exposure_compensation # NULL
    /\ r.white_balance # NULL

\* the WHERE clause of the second query of get_processed_count
CountsProcessed(r) ==
    /\ r.status = "success"
    /\ r.capture_time # NULL /\ r.camera_model # NULL /\ r.width # NULL
    /\ r.height # NULL /\ r.focal_length # NULL /\ r.shutter_speed # NULL
    /\ r.aperture # NULL /\ r.iso # NULL /\ r.exposure_compensation # NULL
    /\ r.white_balance # NULL

\* the WHERE clause of the second query of get_unprocessed_count
CountsUnprocessed(r) ==
    r.status = "success" /\
      (\/ r.capture_time = NULL \/ r.camera_model = NULL \/ r.width = NULL
       \/ r.height = NULL \/ r.focal_length = NULL \/ r.shutter_speed = NULL
       \/ r.aperture = NULL \/ r.iso = NULL \/ r.exposure_compensation = NULL
       \/ r.white_balance = NULL)

\* is_exif_complete without its test of iso
is_exif_complete_no_iso(r) ==
    /\ r.status = "success"
    /\ r.capture_time # NULL /\ r.camera_model # NULL /\ r.width # NULL
    /\ r.height # NULL /\ r.focal_length # NULL /\ r.shutter_speed # NULL
    /\ r.aperture # NULL /\ r.exposure_compensation # NULL
    /\ r.white_balance # NULL

\* is_exif_complete of load_image_list, on a fetched row
is_exif_complete(r) ==
    /\ r.status = "success"
    /\ r.capture_time # NULL /\ r.camera_model # NULL /\ r.width # NULL
    /\ r.height # NULL /\ r.focal_length # NULL /\ r.shutter_speed # NULL
    /\ r.aperture # NULL /\ r.iso # NULL /\ r.exposure_compensation # NULL
    /\ r.white_balance # NULL

\* the result of get_unprocessed_images() when its query succeeds: id and
\* file_path of the selected rows, ORDER BY id ASC
RECURSIVE get_unprocessed_images(_)
get_unprocessed_images(rows) ==
    IF rows = <<>> THEN <<>>
    ELSE IF SelectsUnprocessed(Head(rows))
      THEN <<[id |-> Head(rows).id, file_path |-> Head(rows).file_path]>>
           \o get_unprocessed_images(Tail(rows))
    ELSE get_unprocessed_images(Tail(rows))

\* the results of get_processed_count() and get_unprocessed_count() when
\* their queries succeed: SELECT COUNT(*) FROM images WHERE ...
get_processed_count(rows) ==
    Cardinality({k \in 1 .. Len(rows) : CountsProcessed(rows[k])})
get_unprocessed_count(rows) ==
    Cardinality({k \in 1 .. Len(rows) : CountsUnprocessed(rows[k])})

\* SELECT COUNT(*) FROM images WHERE status = 'success'
total_valid(rows) ==
    Cardinality({k \in 1 .. Len(rows) : rows[k].status = "success"})

---------------------------------------------------------------------------
(* The parts of the program at rest *)

\* no intake batch has been requested
IntakeIdle ==
    /\ now = 0 /\ pending = <<>> /\ dirs = Dirs0
    /\ image_files = <<>> /\ output_dir = <<>> /\ rename_option = 0
    /\ prefix_option = "" /\ keep_original = FALSE
    /\ pc = "idle" /\ idx = 0 /\ error_dir = <<>> /\ hist = <<>>
    /\ process_btn = TRUE /\ finished = 0 /\ progress = NULL

\* no normalization batch has been requested
NormIdle ==
    /\ mode = "all" /\ image_ids = <<>> /\ save_csv = FALSE
    /\ batch_images = <<>> /\ npc = "idle" /\ nidx = 0
    /\ caught = FALSE /\ log = {} /\ extract_btn = TRUE /\ nprogress = NULL

\* load_image_list is not running
CallerIdle ==
    cpc = "idle" /\ unprocessed_count = 0 /\ processed_count = 0 /\ dirty = FALSE

\* no row is under examination
ExifIdle == exif_in = <<>> /\ exif_out = <<>> /\ returned = NULL

RowIdle == row = <<>> /\ verdict = {} /\ ExifIdle

---------------------------------------------------------------------------
(* The intake batch: ImageProcessor.run *)

\* what the environment does during one loop iteration: whether the bytes of
\* the source file can be read (open and copy2 fail if not), which step of the
\* body fails first for another reason (the removal of a file in the way, the
\* copy or rename, the INSERT), and whether the copy into the error directory
\* and the INSERT of the error row succeed
IO == [readable : BOOLEAN, fails : {"none", "remove", "main", "insert"},
       quarOk : BOOLEAN, qdbOk : BOOLEAN]

\* the state one loop iteration works on, and what it did (failed: the
\* error_msg the file went through handle_error_image with, or "none"; wrote: the output_path it materialized;
\* clobbered: a file was at output_path before; quar: the error_path written;
\* bytes: the bytes of the source file when its turn came; named: the
\* new_filename computed for it)
World(f, p) ==
    [fs |-> f, pending |-> p, raised |-> FALSE, failed |-> "none",
     wrote |-> {}, clobbered |-> FALSE, quar |-> {}, bytes |-> {}, named |-> {}]

\* open(image_file, 'rb').read() succeeds
ReadOk(w, p, io) == Exists(w.fs, p) /\ io.readable

\* shutil.copy2(src, dst) succeeds: the source is readable, the two are not
\* the same file, and the destination can be written
CopyOk(w, src, dst, io, ok) == ReadOk(w, src, io) /\ src # dst /\ ok

\* the effect of a successful shutil.copy2(src, dst)
Copy2(w, src, dst) == [w EXCEPT !.fs = WriteFile(@, dst, w.fs[src])]

\* the effect of a successful os.rename(src, dst), src # dst
Rename(w, src, dst) ==
    [w EXCEPT !.fs = RemoveFile(WriteFile(@, dst, w.fs[src]), src)]

\* handle_error_image without its try/except: the exception of a failed copy
\* leaves run()
HandleErrorImageUncaught(w, image_file, errdir, error_msg, t, io) ==
    LET file_name == basename(image_file)
        p0 == Path(errdir, file_name)
        error_path == IF Exists(w.fs, p0)
                        THEN Path(errdir, WithSuffix(file_name, t \div MsPerSecond))
                        ELSE p0
        w0 == [w EXCEPT !.failed = error_msg]
    IN  IF ~CopyOk(w0, image_file, error_path, io, io.quarOk)
          THEN [w0 EXCEPT !.raised = TRUE]
        ELSE LET w1 == [Copy2(w0, image_file, error_path) EXCEPT !.quar = {error_path}]
             IN  IF ~io.qdbOk THEN [w1 EXCEPT !.raised = TRUE]
                 ELSE [w1 EXCEPT !.pending = InsertRow(@,
                         [original_filename |-> file_name, file_name |-> file_name,
                          file_path |-> {error_path}, status |-> "error",
                          error_message |-> Some(error_msg), upload_time |-> t])]

\* handle_error_image: the exception of a failed copy or INSERT is caught and
\* only logged
HandleErrorImage(w, image_file, errdir, error_msg, t, io) ==
    LET file_name == basename(image_file)
        p0 == Path(errdir, file_name)
        error_path == IF Exists(w.fs, p0)
                        THEN Path(errdir, WithSuffix(file_name, t \div MsPerSecond))
                        ELSE p0
        w0 == [w EXCEPT !.failed = error_msg]
    IN  IF ~CopyOk(w0, image_file, error_path, io, io.quarOk) THEN w0
        ELSE LET w1 == [Copy2(w0, image_file, error_path) EXCEPT !.quar = {error_path}]
             IN  IF ~io.qdbOk THEN w1
                 ELSE [w1 EXCEPT !.pending = InsertRow(@,
                         [original_filename |-> file_name, file_name |-> file_name,
                          file_path |-> {error_path}, status |-> "error",
                          error_message |-> Some(error_msg), upload_time |-> t])]

\* the while loop of the timestamp policy: the first of "<ts><ext>",
\* "<ts>_1<ext>", "<ts>_2<ext>", ... that does not exist in dir
RECURSIVE FreeTimestampName(_, _, _, _, _)
FreeTimestampName(f, dir, timestamp, file_ext, count) ==
    LET new_filename == Name("", <<"ts", timestamp>>,
                             IF count = 0 THEN <<>> ELSE <<count>>, file_ext)
    IN  IF Exists(f, Path(dir, new_filename))
          THEN FreeTimestampName(f, dir, timestamp, file_ext, count + 1)
          ELSE new_filename

\* the hash policy digesting the file's name instead of its bytes
NewFilenameOfName(w, image_file, t) ==
    IF rename_option = 1
      THEN FreeTimestampName(w.fs,
               IF keep_original THEN output_dir ELSE dirname(image_file),
               t, splitext1(basename(image_file)), 0)
      ELSE Name("", <<"md5", Md5(basename(image_file).stem[2])>>, <<>>,
                splitext1(basename(image_file)))

\* "确定新文件名": the name under the timestamp or the hash policy, before the prefix
NewFilename(w, image_file, t) ==
    IF rename_option = 1
      THEN FreeTimestampName(w.fs,
               IF keep_original THEN output_dir ELSE dirname(image_file),
               t, splitext1(basename(image_file)), 0)
      ELSE Name("", <<"md5", Md5(w.fs[image_file])>>, <<>>,
                splitext1(basename(image_file)))

\* "添加前缀"
AddPrefix(new_filename) ==
    IF prefix_option # "" THEN [new_filename EXCEPT !.pre = prefix_option]
    ELSE new_filename

\* the INSERT of the success row; its failure is caught by the except of the loop body
InsertSuccess(w, image_file, new_filename, output_path, t, io) ==
    IF io.fails # "insert"
      THEN [w EXCEPT !.pending = InsertRow(@,
              [original_filename |-> basename(image_file), file_name |-> new_filename,
               file_path |-> {output_path}, upload_time |-> t])]
      ELSE HandleErrorImage(w, image_file, error_dir, "insert failed", t, io)

\* keep_original: copy the file to output_dir under the new name
KeepCopy(w, image_file, new_filename, t, io) ==
    LET output_path == Path(output_dir, new_filename)
    IN  IF ~CopyOk(w, image_file, output_path, io, io.fails # "main")
          THEN HandleErrorImage(w, image_file, error_dir, "copy failed", t, io)
          ELSE InsertSuccess(
                 [Copy2(w, image_file, output_path) EXCEPT
                    !.wrote = {output_path}, !.clobbered = Exists(w.fs, output_path)],
                 image_file, new_filename, output_path, t, io)

\* not keep_original: rename the file in its own directory, removing what is
\* in the way
RenameInPlace(w, image_file, new_filename, t, io) ==
    LET output_path == Path(dirname(image_file), new_filename)
        inWay == Exists(w.fs, output_path) /\ image_file # output_path
    IN  IF inWay /\ io.fails = "remove"
          THEN HandleErrorImage(w, image_file, error_dir, "remove failed", t, io)
        ELSE
          LET w1 == IF inWay
                      THEN [w EXCEPT !.fs = RemoveFile(@, output_path),
                                     !.clobbered = TRUE]
                      ELSE w
          IN  IF basename(image_file) # new_filename
                THEN IF ~(Exists(w1.fs, image_file) /\ io.fails # "main")
                       THEN HandleErrorImage(w1, image_file, error_dir, "rename failed", t, io)
                       ELSE InsertSuccess(
                              [Rename(w1, image_file, output_path) EXCEPT !.wrote = {output_path}],
                              image_file, new_filename, output_path, t, io)
                ELSE InsertSuccess([w1 EXCEPT !.wrote = {output_path}],
                                   image_file, new_filename, output_path, t, io)

\* the loop body without the continue of the policy none: the file goes on
\* to be renamed
ProcessOneNoContinue(w, image_file, t, io) ==
    LET w0 == IF rename_option = 0 /\ io.fails # "insert"
                THEN [w EXCEPT !.pending = InsertRow(@,
                        [original_filename |-> basename(image_file),
                         file_name |-> basename(image_file),
                         file_path |-> {image_file}, upload_time |-> t])]
                ELSE w
    IN  IF ~ReadOk(w0, image_file, io)
          THEN HandleErrorImage(w0, image_file, error_dir, "cannot read file for hashing", t, io)
          ELSE RenameInPlace(w0, image_file,
                 AddPrefix(Name("", <<"md5", Md5(w0.fs[image_file])>>, <<>>,
                                splitext1(basename(image_file)))), t, io)

\* the body of the for loop of run() for one image_file, at time t
ProcessOne(w, image_file, t, io) ==
    IF rename_option = 0
      THEN IF io.fails # "insert"
             THEN [w EXCEPT !.pending = InsertRow(@,
                     [original_filename |-> basename(image_file),
                      file_name |-> basename(image_file),
                      file_path |-> {image_file}, upload_time |-> t])]
             ELSE HandleErrorImage(w, image_file, error_dir, "insert failed", t, io)
    ELSE IF rename_option = 2 /\ ~ReadOk(w, image_file, io)
      THEN HandleErrorImage(w, image_file, error_dir, "cannot read file for hashing", t, io)
    ELSE LET new_filename == AddPrefix(NewFilename(w, image_file, t))
             w0 == [w EXCEPT !.named = {new_filename}]
         IN  IF keep_original
               THEN KeepCopy(w0, image_file, new_filename, t, io)
               ELSE RenameInPlace(w0, image_file, new_filename, t, io)

\* a progress that counts the items still to come
ProgressRemaining(i, total) == ((total - i) * 100) \div total

\* int((i / total) * 100): the percentage of the items before the i-th
\* (for the totals of the model the float product is the exact quotient)
Progress(i, total) == (i * 100) \div total

\* the error directory run() chooses before the loop
ErrorDirOf ==
    IF rename_option = 0 THEN JoinError(Cwd)
    ELSE IF keep_original THEN JoinError(output_dir)
    ELSE IF Len(image_files) > 0 THEN JoinError(dirname(image_files[1]))
    ELSE JoinError(Cwd)

\* a directory that was chosen as output directory and has since been removed
GoneDir == <<"gone">>

\* what ImageProcessorApp.output_dir may be: the current directory it starts
\* as, or a directory chosen in the dialog
AppOutputDirs == {Cwd, OutDir, SrcDir, GoneDir}

\* a test of the output directory that takes any existing directory
ExistsAsDir(d, dir) == dir \in d

\* os.path.exists(self.output_dir) and self.output_dir != os.getcwd()
HasOutputDir(d, dir) == dir \in d /\ dir # Cwd

\* process_images: the request is rejected with a warning if no image is
\* selected or, when the original is kept under a renaming policy, if the
\* output directory is not valid; otherwise the thread is started with the
\* output directory of the request
ProcessImages ==
    /\ pc = "idle"
    /\ process_btn
    /\ \E dir \in AppOutputDirs :
         IF image_files = <<>>
           THEN pc' = "rejected" /\ output_dir' = dir /\ process_btn' = TRUE
         ELSE IF rename_option # 0 /\ keep_original /\ ~HasOutputDir(dirs, dir)
           THEN pc' = "rejected" /\ output_dir' = dir /\ process_btn' = TRUE
         ELSE /\ pc' = "started"
              /\ process_btn' = FALSE
              /\ output_dir' = IF rename_option = 0 THEN <<>>
                               ELSE IF keep_original THEN dir
                               ELSE dirname(image_files[1])
    /\ UNCHANGED <<fs, dirs, now, images, pending, idx, error_dir, hist, finished,
                   image_files, rename_option, prefix_option, keep_original,
                   progress>>
    /\ UNCHANGED <<normVars, callerVars, rowVars>>

\* run() up to the loop: connect to the catalog, create the directories
Start ==
    /\ pc = "started"
    /\ \E connOk \in BOOLEAN, mkOk \in BOOLEAN :
         LET missing == (IF rename_option # 0 /\ keep_original THEN {output_dir} ELSE {})
                        \cup {ErrorDirOf}
             toMake == missing \ dirs
         IN  IF ~connOk
               THEN pc' = "returned" /\ UNCHANGED <<dirs, error_dir>>
             ELSE IF toMake # {} /\ ~mkOk
               THEN pc' = "setup_raised" /\ UNCHANGED <<dirs, error_dir>>
             ELSE pc' = "loop" /\ dirs' = dirs \cup toMake /\ error_dir' = ErrorDirOf
    /\ UNCHANGED <<fs, now, images, pending, idx, hist, batchParams,
                   process_btn, finished, progress>>
    /\ UNCHANGED <<normVars, callerVars, rowVars>>

\* the times the clock may show when the next file is processed.  Only the
\* names of the timestamp policy depend on the millisecond; under the other
\* policies the time goes into upload_time alone, and the batch is followed
\* within one tick.
Ticks == IF rename_option = 1 /\ now < MaxClock THEN {now, now + 1} ELSE {now}

\* one iteration of the for loop of run()
ProcessFile ==
    /\ pc = "loop"
    /\ idx < Len(image_files)
    /\ \E t \in Ticks, io \in IO :
         LET image_file == image_files[idx + 1]
             w == ProcessOne(
                    [World(fs, pending) EXCEPT
                       !.bytes = IF Exists(fs, image_file) THEN {fs[image_file]} ELSE {}],
                    image_file, t, io)
         IN  /\ fs' = w.fs
             /\ pending' = w.pending
             /\ now' = t
             /\ hist' = Append(hist, [failed |-> w.failed, wrote |-> w.wrote,
                                      clobbered |-> w.clobbered, quar |-> w.quar,
                                      bytes |-> w.bytes, named |-> w.named])
             /\ pc' = IF w.raised THEN "loop_raised" ELSE "loop"
    /\ idx' = idx + 1
    /\ progress' = Some(Progress(idx, Len(image_files)))
    /\ UNCHANGED <<dirs, images, error_dir, batchParams, process_btn, finished>>
    /\ UNCHANGED <<normVars, callerVars, rowVars>>

\* a commit that makes only the first inserted row durable
CommitFirstRowOnly ==
    /\ pc = "loop"
    /\ idx = Len(image_files)
    /\ images' = images \o (IF pending = <<>> THEN <<>> ELSE <<Head(pending)>>)
    /\ pc' = "done" /\ finished' = finished + 1 /\ progress' = Some(100)
    /\ pending' = <<>>
    /\ UNCHANGED <<fs, dirs, now, idx, error_dir, hist, batchParams, process_btn>>
    /\ UNCHANGED <<normVars, callerVars, rowVars>>

\* conn.commit() after the loop, and the end of run(): the progress 100 and
\* processing_finished are emitted; an exception of the commit ends the
\* thread before that
Commit ==
    /\ pc = "loop"
    /\ idx = Len(image_files)
    /\ \E commitOk \in BOOLEAN :
         IF commitOk
           THEN /\ images' = images \o pending /\ pc' = "done"
                /\ finished' = finished + 1 /\ progress' = Some(100)
           ELSE /\ images' = images /\ pc' = "commit_raised"
                /\ finished' = finished /\ progress' = progress
    /\ pending' = <<>>
    /\ UNCHANGED <<fs, dirs, now, idx, error_dir, hist, batchParams, process_btn>>
    /\ UNCHANGED <<normVars, callerVars, rowVars>>

\* on_processing_finished of ImageProcessorApp, the slot of
\* processing_finished: the controls are enabled again
OnIntakeFinished ==
    /\ pc = "done"
    /\ pc' = "handled"
    /\ process_btn' = TRUE
    /\ UNCHANGED <<fs, dirs, now, images, pending, idx, error_dir, hist, finished,
                   batchParams, progress>>
    /\ UNCHANGED <<normVars, callerVars, rowVars>>

\* the lists of distinct source paths of length 0..MaxFiles
RECURSIVE FileLists(_, _)
FileLists(pool, n) ==
    IF n = 0 THEN {<<>>}
    ELSE LET shorter == FileLists(pool, n - 1)
         IN  shorter \cup {Append(l, f) : l \in {s \in shorter : Len(s) = n - 1},
                                          f \in pool}

Distinct(l) == \A i, j \in 1 .. Len(l) : i # j => l[i] # l[j]

\* the choices made in the window of ImageProcessorApp, on the disk before
\* the batch
Init ==
    /\ fs = Disk0
    /\ dirs = Dirs0
    /\ now = 0
    /\ images = Images0
    /\ pending = <<>>
    /\ rename_option \in 0 .. 2
    /\ image_files \in {l \in FileLists(Pool(rename_option), MaxFiles) : Distinct(l)}
    /\ prefix_option \in {"", "O"}
    /\ keep_original \in BOOLEAN
    /\ output_dir = <<>>
    /\ pc = "idle"
    /\ idx = 0
    /\ error_dir = <<>>
    /\ hist = <<>>
    /\ process_btn = TRUE
    /\ finished = 0
    /\ progress = NULL
    /\ NormIdle /\ CallerIdle /\ RowIdle

Next == ProcessImages \/ Start \/ ProcessFile \/ Commit \/ OnIntakeFinished

Spec == Init /\ [][Next]_vars

\* a second directory of sources, with a file named like FileA in it
Src2Dir == <<"src2">>
FileA2 == Path(Src2Dir, basename(FileA))

\* the error directories an earlier batch may have made, each holding the
\* copy of a file named like FileA that failed in that batch
EarlierErrorDirs == {JoinError(Cwd), JoinError(OutDir), JoinError(SrcDir)}
QuarantineDisk0 ==
    Disk0 @@ (FileA2 :> 2)
          @@ [p \in {Path(e, basename(FileA)) : e \in EarlierErrorDirs} |-> 1]

\* the intake batch on sources of two directories, with the error
\* directories of an earlier batch on the disk
InitQuarantine ==
    /\ fs = QuarantineDisk0
    /\ dirs = Dirs0 \cup {Src2Dir} \cup EarlierErrorDirs
    /\ now = 0
    /\ images = Images0
    /\ pending = <<>>
    /\ rename_option \in 0 .. 2
    /\ image_files \in {l \in FileLists({FileA, FileA2, FileB}, MaxFiles) : Distinct(l)}
    /\ prefix_option \in {"", "O"}
    /\ keep_original \in BOOLEAN
    /\ output_dir = <<>>
    /\ pc = "idle"
    /\ idx = 0
    /\ error_dir = <<>>
    /\ hist = <<>>
    /\ process_btn = TRUE
    /\ finished = 0
    /\ progress = NULL
    /\ NormIdle /\ CallerIdle /\ RowIdle

SpecQuarantine == InitQuarantine /\ [][Next]_vars

\* the intake batch under the scheduling of the program: a started thread
\* keeps running until run() returns or raises, and the event loop of the
\* window delivers every emitted signal to its slot
SpecLive ==
    /\ Init /\ [][Next]_vars
    /\ WF_vars(Start \/ ProcessFile \/ Commit)
    /\ WF_vars(OnIntakeFinished)

---------------------------------------------------------------------------
(* The normalization batch: extraction and the catalog updates *)

\* the most rows the catalog holds
MaxRows == 2
\* the longest list of ids handed to one normalization batch
MaxIds == 2

\* the file the record with the given id refers to
Stored(id) == Path(OutDir, Name("", <<"orig", id>>, <<>>, "jpg"))

\* the bytes of that file: a photo with every tag for the records of odd id,
\* an image without embedded metadata for the records of even id
StoredBytes(id) == IF id % 2 = 1 THEN 1 ELSE 2

\* the files of the catalogued and of the not yet catalogued images
NormDisk0 == [p \in {Stored(id) : id \in 1 .. MaxRows} |->
                StoredBytes(CHOOSE id \in 1 .. MaxRows : Stored(id) = p)]

\* a get_exif_data that finds a camera model in every image
get_exif_data_with_model(bytes) ==
    IF bytes \in {1, 2}
      THEN [ImageSize |-> <<"4000", "3000">>, Model |-> "X100"]
      ELSE <<>>

\* get_exif_data: the tags PIL decodes from the bytes, with ImageSize, or
\* the empty dict when the file cannot be opened as an image
get_exif_data(bytes) ==
    CASE bytes = 1 ->
           [ImageSize |-> <<"4000", "3000">>,
            DateTimeOriginal |-> "2023:06:01 12:30:00", Model |-> "X100",
            LensModel |-> "23mm F2", FocalLength |-> <<23, 1>>,
            ExposureTime |-> <<1, 250>>, FNumber |-> <<28, 10>>,
            ISOSpeedRatings |-> "200", ExposureBiasValue |-> <<0, 1>>,
            WhiteBalance |-> "0",
            GPSInfo |-> [GPSLatitude |-> <<40, 26, 46>>, GPSLatitudeRef |-> "N",
                         GPSLongitude |-> <<79, 58, 56>>, GPSLongitudeRef |-> "W"]]
      [] bytes = 2 -> [ImageSize |-> <<"4000", "3000">>]
      [] OTHER -> <<>>

\* the first of the candidate tags that the dict holds (the values of the
\* tags above are all non-empty)
FirstTag(all_exif, fields) ==
    LET present == {k \in 1 .. Len(fields) : fields[k] \in DOMAIN all_exif}
    IN  IF present = {} THEN NULL
        ELSE Some(fields[CHOOSE k \in present : \A j \in present : k <= j])

\* a tag's value put into the column's format
Format(unit, value) == Some(<<unit, value>>)

\* the value of the first candidate tag, formatted, or None
Tagged(all_exif, fields, unit) ==
    LET tag == FirstTag(all_exif, fields)
    IN  IF tag = NULL THEN NULL
        ELSE Format(unit, all_exif[CHOOSE t \in tag : TRUE])

\* extract_core_exif: the thirteen canonical fields of the file's tags, None
\* for each one the tags do not give
extract_core_exif(bytes) ==
    LET all_exif == get_exif_data(bytes)
        size == "ImageSize" \in DOMAIN all_exif
        gps == IF "GPSInfo" \in DOMAIN all_exif THEN all_exif.GPSInfo ELSE <<>>
    IN  [capture_time |-> Tagged(all_exif, <<"DateTimeOriginal", "DateTimeDigitized",
                                              "DateTime">>, "datetime"),
         width |-> IF size THEN Some(all_exif.ImageSize[1]) ELSE NULL,
         height |-> IF size THEN Some(all_exif.ImageSize[2]) ELSE NULL,
         camera_model |-> Tagged(all_exif, <<"Model", "CameraModel", "Camera">>, "str"),
         lens_model |-> Tagged(all_exif, <<"LensModel", "Lens", "LensInfo">>, "str"),
         focal_length |-> Tagged(all_exif, <<"FocalLength">>, "mm"),
         shutter_speed |-> Tagged(all_exif, <<"ExposureTime">>, "s"),
         aperture |-> Tagged(all_exif, <<"FNumber">>, "f/"),
         iso |-> Tagged(all_exif, <<"ISOSpeedRatings", "ISO",
                                     "PhotographicSensitivity">>, "str"),
         exposure_compensation |-> Tagged(all_exif, <<"ExposureBiasValue">>, "EV"),
         white_balance |-> Tagged(all_exif, <<"WhiteBalance">>, "wb"),
         gps_latitude |-> IF {"GPSLatitude", "GPSLatitudeRef"} \subseteq DOMAIN gps
                            THEN Format(gps.GPSLatitudeRef, gps.GPSLatitude) ELSE NULL,
         gps_longitude |-> IF {"GPSLongitude", "GPSLongitudeRef"} \subseteq DOMAIN gps
                             THEN Format(gps.GPSLongitudeRef, gps.GPSLongitude) ELSE NULL]

\* the path save_exif_to_csv writes: csv_output_dir/exif_<name without extension>.csv
CsvDir == <<"cwd", "exif_data">>
CsvPath(file_path) ==
    Path(CsvDir, [basename(file_path) EXCEPT !.pre = <<"exif_", @>>, !.ext = "csv"])

\* UPDATE images SET <cols> WHERE id = image_id
UpdateRow(rows, image_id, cols) ==
    [k \in 1 .. Len(rows) |->
       IF rows[k].id = image_id
         THEN [c \in DOMAIN rows[k] |-> IF c \in DOMAIN cols THEN cols[c] ELSE rows[k][c]]
         ELSE rows[k]]

\* the outcomes of one call of a catalog helper: it works, its statement
\* fails, or the catalog cannot be opened
DbOutcomes == {"ok", "fail", "noconn"}

\* what a helper call gives back: the rows, and "True", "False" or "raise"
\* (the UnboundLocalError of "if conn" in the finally clause)
Result(rows, ret) == [rows |-> rows, ret |-> ret]

\* an update that sets every field, None or not
update_every_field(rows, image_id, exif_data, exif_csv_path, db) ==
    IF db = "noconn" THEN Result(rows, "raise")
    ELSE IF db = "fail" THEN Result(rows, "False")
    ELSE Result(UpdateRow(rows, image_id,
                  exif_data @@ (IF exif_csv_path # NULL
                                  THEN [exif_csv_path |-> exif_csv_path]
                                  ELSE <<>>)), "True")

\* update_image_exif_in_db: sets exif_csv_path if one is given and every
\* field that is not None; with nothing to set it returns True at once
update_image_exif_in_db(rows, image_id, exif_data, exif_csv_path, db) ==
    LET set_clauses == {c \in DOMAIN exif_data : exif_data[c] # NULL}
                       \cup (IF exif_csv_path # NULL THEN {"exif_csv_path"} ELSE {})
    IN  IF db = "noconn" THEN Result(rows, "raise")
        ELSE IF set_clauses = {} THEN Result(rows, "True")
        ELSE IF db = "fail" THEN Result(rows, "False")
        ELSE Result(UpdateRow(rows, image_id,
                      [c \in set_clauses |->
                         IF c = "exif_csv_path" THEN exif_csv_path ELSE exif_data[c]]), "True")

\* a mark that takes the record out of the table
delete_image(rows, image_id, error_message, db) ==
    IF db = "noconn" THEN Result(rows, "raise")
    ELSE IF db = "fail" THEN Result(rows, "False")
    ELSE Result(SelectSeq(rows, LAMBDA r : r.id # image_id), "True")

\* a mark that sets the status and leaves the message as it was
mark_without_message(rows, image_id, error_message, db) ==
    IF db = "noconn" THEN Result(rows, "raise")
    ELSE IF db = "fail" THEN Result(rows, "False")
    ELSE Result(UpdateRow(rows, image_id, [status |-> "error"]), "True")

\* mark_image_as_error: UPDATE images SET status = 'error', error_message = ?
mark_image_as_error(rows, image_id, error_message, db) ==
    IF db = "noconn" THEN Result(rows, "raise")
    ELSE IF db = "fail" THEN Result(rows, "False")
    ELSE Result(UpdateRow(rows, image_id,
                  [status |-> "error", error_message |-> Some(error_message)]), "True")

---------------------------------------------------------------------------
(* The normalization batch: ExifExtractThread.run *)

\* the catalog before the normalization batches: one image taken in
NormImages0 ==
    [id \in 1 .. 1 |->
       [id |-> id, original_filename |-> Stored(id).name,
        file_name |-> Stored(id).name, file_path |-> Some(Stored(id))] @@ DefaultRow]

\* what the environment does during one loop iteration: whether the CSV can
\* be written (when one is asked for), how the first call of a catalog
\* helper ends and, when that call raises, how the call of the except clause
\* ends
NormIO == {io \in [csvOk : BOOLEAN, db1 : DbOutcomes, db2 : DbOutcomes] :
             /\ ~save_csv => io.csvOk
             /\ io.db1 # "noconn" => io.db2 = "ok"}

\* the row of the given id
RowOf(rows, image_id) ==
    {rows[k] : k \in {j \in 1 .. Len(rows) : rows[j].id = image_id}}

\* the except clause of the loop body: the record is marked; an exception
\* of mark_image_as_error leaves the loop
ExceptMark(rows, image_id, io) ==
    LET m == mark_image_as_error(rows, image_id, "exception", io.db2)
    IN  [rows |-> m.rows, raised |-> m.ret = "raise", caught |-> TRUE]

\* the body of the for loop of run() for one (image_id, file_path)
ProcessRecord(rows, f, image_id, file_path, io) ==
    IF ~Exists(f, file_path)
      THEN LET m == mark_image_as_error(rows, image_id, "file not found", io.db1)
           IN  IF m.ret = "raise" THEN ExceptMark(rows, image_id, io)
               ELSE [rows |-> m.rows, raised |-> FALSE, caught |-> FALSE]
    ELSE LET exif_data == extract_core_exif(f[file_path])
             csv_path == IF save_csv /\ io.csvOk THEN Some(CsvPath(file_path)) ELSE NULL
             u == update_image_exif_in_db(rows, image_id, exif_data, csv_path, io.db1)
         IN  IF u.ret = "raise" THEN ExceptMark(rows, image_id, io)
             ELSE [rows |-> u.rows, raised |-> FALSE, caught |-> FALSE]

\* the lists of ids extract_exif builds from the selected rows of the table,
\* which is in the order of descending id: 1..MaxIds ids out of 1..MaxRows
RECURSIVE IdLists(_)
IdLists(n) ==
    IF n = 0 THEN {<<>>}
    ELSE LET shorter == IdLists(n - 1)
         IN  shorter \cup {Append(l, id) : l \in {s \in shorter : Len(s) = n - 1},
                                           id \in 1 .. MaxRows}

Descending(l) == \A i, j \in 1 .. Len(l) : i < j => l[i] > l[j]

Range(l) == {l[k] : k \in 1 .. Len(l)}

\* a selection test that takes every id that has a row
HasRow(result) == result # {}

\* if result and result[0] == 'success'
HasSuccessRow(result) == \E r \in result : r.status = "success"

\* the ids of image_ids whose row has status success and a file_path, each
\* with its file_path; an id whose SELECT fails is left out
RECURSIVE SelectedImages(_, _, _)
SelectedImages(rows, ids, bad) ==
    IF ids = <<>> THEN <<>>
    ELSE LET image_id == Head(ids)
             result == RowOf(rows, image_id)
             rest == SelectedImages(rows, Tail(ids), bad)
         IN  IF image_id \notin bad /\ HasSuccessRow(result) /\
                \E r \in result : r.file_path # NULL
               THEN <<[id |-> image_id,
                       file_path |-> (CHOOSE r \in result : TRUE).file_path]>> \o rest
               ELSE rest

\* an update_log notification: about a record, or (id 0) about the batch
LogEntry(kind, image_id) == [kind |-> kind, id |-> image_id]

\* the notification of the except clause around the whole of run()
BatchError == LogEntry("batch_error", 0)

\* the notifications of the selection, one for each id left out: by the
\* else branch of the status test, or by the except clause of a SELECT that
\* fails
SkipLogged(rows, ids, bad) ==
    {LogEntry("skipped", image_id) :
       image_id \in {i \in Range(ids) : i \in bad \/ ~HasSuccessRow(RowOf(rows, i))}}

\* extract_exif: the caller starts a batch, the controls are disabled
ExtractExif ==
    /\ extract_btn
    /\ npc = "idle"
    /\ cpc = "idle"
    /\ \E m \in {"all", "selected"}, ids \in IdLists(MaxIds), csv \in BOOLEAN :
         /\ (m = "all") = (ids = <<>>)
         /\ Descending(ids)
         /\ mode' = m /\ image_ids' = ids /\ save_csv' = csv
    /\ npc' = "started"
    /\ batch_images' = <<>> /\ nidx' = 0 /\ caught' = FALSE /\ log' = {}
    /\ extract_btn' = FALSE /\ nprogress' = NULL
    /\ UNCHANGED <<fs, images, intakeVars, callerVars, rowVars>>

\* run() up to the loop: the records of the batch are selected; with none
\* selected (the progress 100 is emitted then), or from the except clause
\* around it all, processing_finished is emitted and run() returns
NormSelect ==
    /\ npc = "started"
    /\ \E db \in DbOutcomes, bad \in SUBSET Range(image_ids) :
         \* all mode: the query works, fails or cannot connect; selected
         \* mode: the connection fails, or the SELECTs of the ids in bad do
         /\ mode = "selected" => db # "fail"
         /\ db = "noconn" => bad = {}
         /\ LET selected ==
                  IF mode = "all"
                    THEN IF db = "ok" THEN get_unprocessed_images(images) ELSE <<>>
                    ELSE SelectedImages(images, image_ids, bad)
            IN  /\ batch_images' = IF db = "noconn" THEN <<>> ELSE selected
                /\ npc' = IF db = "noconn" \/ selected = <<>> THEN "done" ELSE "loop"
                /\ nprogress' = IF db # "noconn" /\ selected = <<>>
                                  THEN Some(100) ELSE NULL
         /\ log' = IF db = "noconn" THEN {BatchError}
                    ELSE IF mode = "selected" THEN SkipLogged(images, image_ids, bad)
                    ELSE {}
    /\ UNCHANGED <<fs, images, mode, image_ids, save_csv, nidx, caught, extract_btn>>
    /\ UNCHANGED <<intakeVars, callerVars, rowVars>>

\* one iteration of the for loop of run(); an exception that leaves the
\* loop body is caught around the loop, processing_finished is emitted and
\* run() returns, its locals gone
NormStep ==
    /\ npc = "loop"
    /\ nidx < Len(batch_images)
    /\ \E io \in NormIO :
         LET image_id == batch_images[nidx + 1].id
             file_path == CHOOSE p \in batch_images[nidx + 1].file_path : TRUE
             w == ProcessRecord(images, fs, image_id, file_path, io)
         IN  /\ images' = w.rows
             /\ caught' = w.caught
             /\ nprogress' = Some(Progress(nidx, Len(batch_images)))
             /\ IF w.raised
                  THEN /\ npc' = "done" /\ batch_images' = <<>> /\ nidx' = 0
                       /\ log' = log \cup {BatchError}
                  ELSE /\ npc' = "loop" /\ batch_images' = batch_images
                       /\ nidx' = nidx + 1 /\ log' = log
    /\ UNCHANGED <<fs, mode, image_ids, save_csv, extract_btn>>
    /\ UNCHANGED <<intakeVars, callerVars, rowVars>>

\* the end of run() after the loop: the progress 100 and processing_finished
\* are emitted and run() returns, its locals gone
NormFinish ==
    /\ npc = "loop"
    /\ nidx = Len(batch_images)
    /\ npc' = "done"
    /\ batch_images' = <<>> /\ nidx' = 0
    /\ nprogress' = Some(100)
    /\ UNCHANGED <<fs, images, mode, image_ids, save_csv, caught, log, extract_btn>>
    /\ UNCHANGED <<intakeVars, callerVars, rowVars>>

---------------------------------------------------------------------------
(* Around the normalization batch: the disk, the intake, load_image_list *)

\* the file of a record of status success is removed from the disk
DeleteFile ==
    /\ \E k \in 1 .. Len(images) :
         \E p \in images[k].file_path :
           /\ images[k].status = "success"
           /\ Exists(fs, p)
           /\ fs' = RemoveFile(fs, p)
    /\ UNCHANGED <<images, intakeVars, normVars, callerVars, rowVars>>

\* the intake program commits a batch of one file: a success row for the
\* file taken in, or an error row for its copy in the error directory
IntakeCommits ==
    /\ Len(images) < MaxRows
    /\ \E ok \in BOOLEAN :
         LET image_file == Stored(Len(images) + 1)
             error_path == Path(JoinError(OutDir), basename(image_file))
         IN  images' = images \o
               IF ok
                 THEN InsertRow(<<>>,
                        [original_filename |-> basename(image_file),
                         file_name |-> basename(image_file),
                         file_path |-> Some(image_file), upload_time |-> now])
                 ELSE InsertRow(<<>>,
                        [original_filename |-> basename(image_file),
                         file_name |-> basename(image_file),
                         file_path |-> Some(error_path), status |-> "error",
                         error_message |-> Some("copy failed"), upload_time |-> now])
    /\ dirty' = (cpc \in {"counted_unprocessed", "counted"})
    /\ UNCHANGED <<fs, intakeVars, normVars, cpc, unprocessed_count,
                   processed_count, rowVars>>

\* load_image_list up to unprocessed_count = processor.get_unprocessed_count():
\* the rows are fetched and the first counter is read (the count, or 0 when
\* its query fails); an exception, as when the catalog cannot be opened,
\* ends load_image_list
ReadUnprocessed(db) ==
    /\ cpc' = IF db = "noconn" THEN "idle" ELSE "counted_unprocessed"
    /\ unprocessed_count' = IF db = "ok" THEN get_unprocessed_count(images) ELSE 0
    /\ processed_count' = 0
    /\ dirty' = (db = "fail")

\* load_image_list called at startup or by the refresh button, which is
\* enabled while no batch runs
LoadImageList ==
    /\ cpc = "idle"
    /\ npc = "idle"
    /\ \E db \in DbOutcomes : ReadUnprocessed(db)
    /\ UNCHANGED <<fs, images, intakeVars, normVars, rowVars>>

\* on_processing_finished: the controls are enabled again and the list is
\* loaded
OnProcessingFinished ==
    /\ npc = "done"
    /\ cpc = "idle"
    /\ \E db \in DbOutcomes : ReadUnprocessed(db)
    /\ npc' = "idle"
    /\ mode' = "all" /\ image_ids' = <<>> /\ save_csv' = FALSE
    /\ batch_images' = <<>> /\ nidx' = 0 /\ caught' = FALSE /\ log' = {}
    /\ extract_btn' = TRUE /\ nprogress' = NULL
    /\ UNCHANGED <<fs, images, intakeVars, rowVars>>

\* processed_count = processor.get_processed_count()
CountProcessed ==
    /\ cpc = "counted_unprocessed"
    /\ \E db \in DbOutcomes :
         /\ cpc' = IF db = "noconn" THEN "idle" ELSE "counted"
         /\ processed_count' = IF db = "ok" THEN get_processed_count(images) ELSE 0
         /\ unprocessed_count' = IF db = "noconn" THEN 0 ELSE unprocessed_count
         /\ dirty' = IF db = "noconn" THEN FALSE ELSE (dirty \/ db = "fail")
    /\ UNCHANGED <<fs, images, intakeVars, normVars, rowVars>>

\* the rest of load_image_list: the counts are logged, the table is filled
FillTable ==
    /\ cpc = "counted"
    /\ cpc' = "idle"
    /\ unprocessed_count' = 0 /\ processed_count' = 0 /\ dirty' = FALSE
    /\ UNCHANGED <<fs, images, intakeVars, normVars, rowVars>>

\* the catalog and the disk the normalization program is started on
InitNorm ==
    /\ fs = NormDisk0
    /\ images = NormImages0
    /\ IntakeIdle /\ NormIdle /\ CallerIdle /\ RowIdle

NextNorm ==
    \/ ExtractExif \/ NormSelect \/ NormStep \/ NormFinish
    \/ DeleteFile \/ IntakeCommits
    \/ LoadImageList \/ OnProcessingFinished \/ CountProcessed \/ FillTable

SpecNorm == InitNorm /\ [][NextNorm]_vars

---------------------------------------------------------------------------
(* Either program on its own: 01_image_processor.py or 02_exif_extractor.py *)

\* the process is the intake program, with files chosen in its window, or
\* the normalization program, in which no file is ever chosen for intake
IntakeProgram == image_files # <<>>

InitProgress ==
    \/ Init /\ IntakeProgram
    \/ InitNorm

NextProgress ==
    \/ IntakeProgram /\ ProcessImages
    \/ IntakeProgram /\ Start
    \/ IntakeProgram /\ ProcessFile
    \/ IntakeProgram /\ Commit
    \/ IntakeProgram /\ OnIntakeFinished
    \/ ~IntakeProgram /\ ExtractExif
    \/ ~IntakeProgram /\ NormSelect
    \/ ~IntakeProgram /\ NormStep
    \/ ~IntakeProgram /\ NormFinish
    \/ ~IntakeProgram /\ DeleteFile
    \/ ~IntakeProgram /\ IntakeCommits
    \/ ~IntakeProgram /\ LoadImageList
    \/ ~IntakeProgram /\ OnProcessingFinished
    \/ ~IntakeProgram /\ CountProcessed
    \/ ~IntakeProgram /\ FillTable

SpecProgress == InitProgress /\ [][NextProgress]_vars

---------------------------------------------------------------------------
(* The completeness predicates applied to one row *)

\* columns outside the ten core ones whose nullity is varied
OtherColumns == {"lens_model", "gps_latitude", "gps_longitude", "exif_csv_path"}

\* a row of the given status whose columns in filled are not NULL
RowWith(status, filled) ==
    [c \in DOMAIN DefaultRow |->
       IF c = "id" THEN 1
       ELSE IF c = "status" THEN status
       ELSE IF c = "file_path" THEN Some(Stored(1))
       ELSE IF c \in filled THEN Some("v")
       ELSE DefaultRow[c]]

\* the four places that decide completeness are asked about the row: the
\* all-mode selection, the two counters, the listing
Classify ==
    /\ verdict = {}
    /\ verdict' = Some([selected |-> get_unprocessed_images(<<row>>) # <<>>,
                        unprocessed |-> get_unprocessed_count(<<row>>) = 1,
                        processed |-> get_processed_count(<<row>>) = 1,
                        listed |-> is_exif_complete(row)])
    /\ UNCHANGED <<fs, images, intakeVars, normVars, callerVars, row, exif_in, exif_out,
                   returned>>

InitComplete ==
    /\ fs = NormDisk0
    /\ images = <<>>
    /\ IntakeIdle /\ NormIdle /\ CallerIdle
    /\ row \in {RowWith(status, filled) :
                  status \in {"success", "error"},
                  filled \in SUBSET (CoreFields \cup OtherColumns)}
    /\ verdict = {}
    /\ ExifIdle

NextComplete == Classify

SpecComplete == InitComplete /\ [][NextComplete]_vars

---------------------------------------------------------------------------
(* The catalog helpers applied to one record, over and over *)

\* core_exif as extract_core_exif initializes it, which it returns when
\* get_exif_data could not open the file and gave the empty dict
NoExif == [c \in ExifFields |-> NULL]

\* the record's file is read as it is at the time (a photo with every tag,
\* an image without metadata, or a file that does not open as an image),
\* the CSV is written or not, and update_image_exif_in_db is called with
\* what was extracted
UpdateImageExif ==
    /\ \E p \in DOMAIN fs, imgOk \in BOOLEAN, csv \in BOOLEAN, db \in DbOutcomes :
         LET exif_data == IF imgOk THEN extract_core_exif(fs[p]) ELSE NoExif
             csv_path == IF csv THEN Some(CsvPath(p)) ELSE NULL
             result == update_image_exif_in_db(images, 1, exif_data, csv_path, db)
         IN  /\ images' = result.rows
             /\ exif_out' = exif_data
             /\ returned' = Some([db |-> db, ret |-> result.ret])
    /\ UNCHANGED <<fs, intakeVars, normVars, callerVars, row, verdict, exif_in>>

\* mark_image_as_error is called for the record
MarkImageAsError ==
    /\ \E db \in DbOutcomes :
         LET result == mark_image_as_error(images, 1, "exception", db)
         IN  /\ images' = result.rows
             /\ returned' = Some([db |-> db, ret |-> result.ret])
    /\ exif_out' = <<>>
    /\ UNCHANGED <<fs, intakeVars, normVars, callerVars, row, verdict, exif_in>>

\* the columns whose nullity is varied one by one; the others are all set
\* or all null
VariedColumns == {"capture_time", "camera_model", "width", "lens_model",
                  "exif_csv_path"}

\* a catalog of one record, of either status and with some of its columns set
InitPersist ==
    /\ fs = NormDisk0
    /\ images \in {<<RowWith(status, varied \cup others)>> :
                     status \in {"success", "error"},
                     varied \in SUBSET VariedColumns,
                     others \in {{}, (CoreFields \cup OtherColumns) \ VariedColumns}}
    /\ IntakeIdle /\ NormIdle /\ CallerIdle /\ RowIdle

NextPersist == UpdateImageExif \/ MarkImageAsError

SpecPersist == InitPersist /\ [][NextPersist]_vars

---------------------------------------------------------------------------
(* The formats of the columns: extract_core_exif on one set of tags *)

\* the largest numerator and denominator of an exposure time
MaxNumerator == 3
MaxDenominator == 250

\* a tag value that is a rational (PIL's IFDRational: it has numerator and
\* denominator), and one that is a plain integer
Rational(n, d) == [type |-> "rational", numerator |-> n, denominator |-> d]
IntValue(v) == [type |-> "int", val |-> v]
StrValue(s) == [type |-> "str", val |-> s]

\* str.isdigit, on strings of ASCII characters
IsDigit(s) ==
    /\ s # ""
    /\ \A i \in 1 .. Len(s) :
         SubSeq(s, i, i) \in {"0", "1", "2", "3", "4", "5", "6", "7", "8", "9"}

\* int(s) of a string of digits
RECURSIVE ParseInt(_)
ParseInt(s) ==
    IF s = "" THEN 0
    ELSE LET last == SubSeq(s, Len(s), Len(s))
             digit == CHOOSE k \in 0 .. 9 : ToString(k) = last
         IN  10 * ParseInt(SubSeq(s, 1, Len(s) - 1)) + digit

\* the position of the first occurrence of the character in the string, 0
\* if it has none
Find(s, ch) ==
    LET at == {i \in 1 .. Len(s) : SubSeq(s, i, i) = ch}
    IN  IF at = {} THEN 0 ELSE CHOOSE i \in at : \A j \in at : i <= j

\* a shutter speed without its unit
ShutterSpeedNoUnit(exposure) ==
    IF exposure.type = "rational"
      THEN ToString(exposure.numerator) \o "/" \o ToString(exposure.denominator)
      ELSE ToString(exposure.val) \o ".00000"

\* the column shutter_speed of the tag ExposureTime: "1/<d>s" or "<n>/<d>s"
\* for a rational, the seconds with five decimals for another number
ShutterSpeed(exposure) ==
    IF exposure.type = "rational"
      THEN IF exposure.numerator = 1
             THEN "1/" \o ToString(exposure.denominator) \o "s"
             ELSE ToString(exposure.numerator) \o "/"
                    \o ToString(exposure.denominator) \o "s"
      ELSE ToString(exposure.val) \o ".00000s"

\* the dicts with an exposure time
ExposureInputs ==
    {[ExposureTime |-> Rational(n, d)] : n \in 1 .. MaxNumerator,
                                         d \in 1 .. MaxDenominator}
    \cup {[ExposureTime |-> IntValue(v)] : v \in 1 .. MaxNumerator}

\* the largest white balance code
MaxWhiteBalance == 2

\* the labels of the automatic and of the manual white balance, two Chinese
\* characters each, written by their code points: U+81EA U+52A8 (zidong,
\* automatic) and U+624B U+52A8 (shoudong, manual)
AutoLabel == "\\u81ea\\u52a8"
ManualLabel == "\\u624b\\u52a8"

\* str(wb)
StrOf(x) == IF x.type = "int" THEN ToString(x.val) ELSE x.val

\* a white balance that maps the codes given as integers only
WhiteBalanceIntOnly(wb) ==
    IF wb.type = "int" /\ wb.val = 0 THEN AutoLabel
    ELSE IF wb.type = "int" /\ wb.val = 1 THEN ManualLabel
    ELSE StrOf(wb)

\* the column white_balance of the tag WhiteBalance: an int, or a str of
\* digits, of value 0 gives the automatic label and of value 1 the manual
\* one; every other value gives str(wb)
WhiteBalance(wb) ==
    IF wb.type = "int" \/ (wb.type = "str" /\ IsDigit(wb.val))
      THEN LET wb_int == IF wb.type = "int" THEN wb.val ELSE ParseInt(wb.val)
           IN  IF wb_int = 0 THEN AutoLabel
               ELSE IF wb_int = 1 THEN ManualLabel
               ELSE StrOf(wb)
      ELSE StrOf(wb)

\* the dicts with a white balance: the codes as integers, as strings of
\* digits, and strings that are no code
WhiteBalanceInputs ==
    {[WhiteBalance |-> IntValue(v)] : v \in -1 .. MaxWhiteBalance}
    \cup {[WhiteBalance |-> StrValue(ToString(v))] : v \in 0 .. MaxWhiteBalance}
    \cup {[WhiteBalance |-> StrValue(t)] :
            t \in {"00", "01", "02", "10", "-1", "1.0", "", "Auto", "auto", "manual", "Cloudy"}}

\* the degrees, minutes and seconds of the coordinates
MaxDegrees == 40
MaxMinutes == 26
MaxSeconds == 46

\* the number a tag value stands for (the rationals here are whole numbers)
NumberOf(x) == IF x.type = "rational" THEN x.numerator ELSE x.val

\* the decimal numeral of n in six digits
Pad6(n) == SubSeq("000000", 1, 6 - Len(ToString(n))) \o ToString(n)

\* f"{value:.6f}" of the value k/3600, negated or not: the value in
\* millionths, rounded to the nearest (k * 2500 / 9 is never halfway between
\* two integers, and the error of the float sum is far below 1/18 of a
\* millionth).  A negated float zero prints its sign, a Fraction zero has none.
FormatFixed6(k, negated, exact) ==
    LET q == (k * 2500) \div 9
        r == (k * 2500) % 9
        micro == IF 2 * r > 9 THEN q + 1 ELSE q
        sign == IF negated /\ (~exact \/ k # 0) THEN "-" ELSE ""
    IN  sign \o ToString(micro \div 1000000) \o "." \o Pad6(micro % 1000000)

\* one coordinate column: with the coordinate and its reference present,
\* value = c[0] + c[1]/60 + c[2]/3600, negated for the given reference, is
\* formatted with six decimals.  On rationals the sum is a Fraction, which
\* only an interpreter whose Fraction has __format__ can format; elsewhere
\* the TypeError is caught, a warning is logged and the column stays None.
GpsColumn(gps_info, coordinate, reference, negative_ref, fraction_format) ==
    IF coordinate \in DOMAIN gps_info /\ reference \in DOMAIN gps_info
      THEN LET c == gps_info[coordinate]
               exact == \E i \in 1 .. 3 : c[i].type = "rational"
               k == NumberOf(c[1]) * 3600 + NumberOf(c[2]) * 60 + NumberOf(c[3])
           IN  IF exact /\ ~fraction_format THEN NULL
               ELSE Some(FormatFixed6(k, gps_info[reference] = negative_ref, exact))
      ELSE NULL

\* the triples of a coordinate, of plain numbers and of rationals
Triples ==
    {<<IntValue(dd), IntValue(mm), IntValue(ss)>> :
        dd \in {0, MaxDegrees}, mm \in {0, MaxMinutes}, ss \in 0 .. MaxSeconds}
    \cup {<<Rational(dd, 1), Rational(mm, 1), Rational(ss, 1)>> :
        dd \in {0, MaxDegrees}, mm \in {0, MaxMinutes}, ss \in 0 .. MaxSeconds}

\* the dicts with GPS tags: a latitude or a longitude, each with or without
\* its reference, or a reference alone
GpsInputs ==
    LET Axis == {[coordinate |-> "GPSLatitude", reference |-> "GPSLatitudeRef",
                  refs |-> {"N", "S"}],
                 [coordinate |-> "GPSLongitude", reference |-> "GPSLongitudeRef",
                  refs |-> {"E", "W"}]}
    IN  UNION {{[GPSInfo |-> (a.coordinate :> c) @@ (a.reference :> ref)] :
                   c \in Triples, ref \in a.refs}
               \cup {[GPSInfo |-> (a.coordinate :> c)] : c \in Triples}
               \cup {[GPSInfo |-> (a.reference :> ref)] : ref \in a.refs} :
              a \in Axis}

\* the characters \s and strptime take as white space
WhiteSpace == {" ", "\t"}

\* the string cut into its maximal runs of digits and its other characters
RECURSIVE Tokens(_)
Tokens(s) ==
    IF s = "" THEN <<>>
    ELSE LET n == Cardinality({i \in 1 .. Len(s) : IsDigit(SubSeq(s, 1, i))})
         IN  IF n = 0 THEN <<SubSeq(s, 1, 1)>> \o Tokens(SubSeq(s, 2, Len(s)))
             ELSE <<SubSeq(s, 1, n)>> \o Tokens(SubSeq(s, n + 1, Len(s)))

\* a datetime object
DateTime(y, mo, d, h, mi, sec, us) ==
    [type |-> "datetime", year |-> y, month |-> mo, day |-> d, hour |-> h,
     minute |-> mi, second |-> sec, microsecond |-> us]

\* the number of days of the month of the year
DaysIn(y, mo) ==
    IF mo = 2 THEN (IF y % 4 = 0 /\ (y % 100 # 0 \/ y % 400 = 0) THEN 29 ELSE 28)
    ELSE IF mo \in {4, 6, 9, 11} THEN 30 ELSE 31

\* a field of one or two digits with a value in lo..hi
Field2(t, lo, hi) == IsDigit(t) /\ Len(t) <= 2 /\ ParseInt(t) \in lo .. hi

\* datetime.strptime(s, "%Y<sep>%m<sep>%d %H:%M:%S") and, with_f, the same
\* with ".%f" behind: the datetime, or None for the ValueError.  %Y takes
\* four digits, the other fields one or two, %f one to six; the blank of the
\* format takes one or more white space characters; a date or a second that
\* does not exist is a ValueError too.  (Strings with a blank in front of a
\* one-digit day, which %d takes as well, are not among the model's.)
Strptime(s, sep, with_f) ==
    LET t == Tokens(s)
        k == Len(t) - (IF with_f THEN 12 ELSE 10)
    IN  IF /\ k >= 1
           /\ IsDigit(t[1]) /\ Len(t[1]) = 4 /\ ParseInt(t[1]) >= 1
           /\ t[2] = sep /\ Field2(t[3], 1, 12)
           /\ t[4] = sep /\ Field2(t[5], 1, DaysIn(ParseInt(t[1]), ParseInt(t[3])))
           /\ \A j \in 6 .. 5 + k : t[j] \in WhiteSpace
           /\ Field2(t[6 + k], 0, 23)
           /\ t[7 + k] = ":" /\ Field2(t[8 + k], 0, 59)
           /\ t[9 + k] = ":" /\ Field2(t[10 + k], 0, 59)
           /\ with_f => /\ t[11 + k] = "."
                        /\ IsDigit(t[12 + k]) /\ Len(t[12 + k]) <= 6
          THEN Some(DateTime(ParseInt(t[1]), ParseInt(t[3]), ParseInt(t[5]),
                             ParseInt(t[6 + k]), ParseInt(t[8 + k]), ParseInt(t[10 + k]),
                             IF with_f
                               THEN ParseInt(t[12 + k]) * 10 ^ (6 - Len(t[12 + k]))
                               ELSE 0))
          ELSE NULL

\* date_formats: each layout by its date separator and whether it ends in .%f
date_formats ==
    <<[sep |-> ":", f |-> FALSE], [sep |-> ":", f |-> TRUE],
      [sep |-> "-", f |-> FALSE], [sep |-> "-", f |-> TRUE],
      [sep |-> "/", f |-> FALSE], [sep |-> "/", f |-> TRUE]>>

\* the loops "for fmt in ...: try strptime ... except ValueError: continue":
\* what the first layout that parses the string gives, None if none does
RECURSIVE FirstParse(_, _)
FirstParse(s, formats) ==
    IF formats = <<>> THEN NULL
    ELSE LET date_time == Strptime(s, Head(formats).sep, Head(formats).f)
         IN  IF date_time # NULL THEN date_time ELSE FirstParse(s, Tail(formats))

\* re.search of the pattern of a time with a fraction: the pattern matches
\* at position i of the string
MsMatchAt(s, i) ==
    /\ i + 20 <= Len(s)
    /\ IsDigit(SubSeq(s, i, i + 3))
    /\ SubSeq(s, i + 4, i + 4) \in {"-", ":", "/"}
    /\ IsDigit(SubSeq(s, i + 5, i + 6))
    /\ SubSeq(s, i + 7, i + 7) \in {"-", ":", "/"}
    /\ IsDigit(SubSeq(s, i + 8, i + 9))
    /\ SubSeq(s, i + 10, i + 10) \in WhiteSpace
    /\ IsDigit(SubSeq(s, i + 11, i + 12))
    /\ SubSeq(s, i + 13, i + 13) = ":"
    /\ IsDigit(SubSeq(s, i + 14, i + 15))
    /\ SubSeq(s, i + 16, i + 16) = ":"
    /\ IsDigit(SubSeq(s, i + 17, i + 18))
    /\ SubSeq(s, i + 19, i + 19) = "."
    /\ IsDigit(SubSeq(s, i + 20, i + 20))

\* int(float(ms_str) * 1000000) of the digits behind the point: the first
\* six of them, filled up with zeros.  (The float product comes out one
\* below for some fractions of four and more digits, such as .0157; those
\* and the fractions that round to 1.0 are not among the model's.)
Microseconds(digits) ==
    IF Len(digits) <= 6 THEN ParseInt(digits) * 10 ^ (6 - Len(digits))
    ELSE ParseInt(SubSeq(digits, 1, 6))

\* the special handling of a time with a fraction: the leftmost match of
\* the pattern anywhere in the string, its base time parsed by the layouts
\* the given slice of date_formats holds, the fraction put in as microsecond
SpecialParse(s, formats) ==
    LET at == {i \in 1 .. Len(s) : MsMatchAt(s, i)}
    IN  IF at = {} THEN NULL
        ELSE LET i == CHOOSE a \in at : \A b \in at : a <= b
                 base_time_str == SubSeq(s, i, i + 18)
                 rest == SubSeq(s, i + 20, Len(s))
                 n == Cardinality({j \in 1 .. Len(rest) : IsDigit(SubSeq(rest, 1, j))})
                 base_time == FirstParse(base_time_str, formats)
             IN  IF base_time = NULL THEN NULL
                 ELSE {[b EXCEPT !.microsecond = Microseconds(SubSeq(rest, 1, n))] :
                         b \in base_time}

\* time_fields
time_fields == <<"DateTimeOriginal", "DateTimeDigitized", "DateTime">>

\* date_str: str() of the first of time_fields that the dict holds with a
\* value that is not empty, None if there is none
DateStr(all_exif) ==
    LET filled == {k \in 1 .. Len(time_fields) :
                     /\ time_fields[k] \in DOMAIN all_exif
                     /\ StrOf(all_exif[time_fields[k]]) # ""}
    IN  IF filled = {} THEN NULL
        ELSE Some(StrOf(all_exif[time_fields[CHOOSE k \in filled :
                                                \A j \in filled : k <= j]]))

\* the column capture_time: the datetime the special handling or else the
\* first of date_formats gives, the string itself when neither parses it
CaptureTime(all_exif) ==
    LET date_str == DateStr(all_exif)
    IN  IF date_str = NULL THEN NULL
        ELSE LET s == CHOOSE x \in date_str : TRUE
                 special == SpecialParse(s, SubSeq(date_formats, 1, 3))
                 date_time == IF special # NULL THEN special
                              ELSE FirstParse(s, date_formats)
             IN  IF date_time = NULL THEN Some(StrValue(s)) ELSE date_time

\* the years, months and days of the standard time strings
MaxYear == 2024
MaxMonth == 12
MaxDay == 31

\* the decimal numeral of n in two digits
Pad2(n) == IF n < 10 THEN "0" \o ToString(n) ELSE ToString(n)

\* strftime("%Y:%m:%d %H:%M:%S") of a datetime of a year of four digits
Strftime(dt) ==
    ToString(dt.year) \o ":" \o Pad2(dt.month) \o ":" \o Pad2(dt.day) \o " "
      \o Pad2(dt.hour) \o ":" \o Pad2(dt.minute) \o ":" \o Pad2(dt.second)

\* the time of the standard EXIF layout with the given fields
Standard(y, mo, d, h, mi, sec) ==
    ToString(y) \o ":" \o Pad2(mo) \o ":" \o Pad2(d) \o " "
      \o Pad2(h) \o ":" \o Pad2(mi) \o ":" \o Pad2(sec)

\* the time strings a tag may hold: standard ones (of dates that exist and
\* of dates that do not), the other layouts, fractions of up to and of more
\* than six digits, times inside other text, and strings of no layout
TimeStrings ==
    {Standard(y, mo, d, h, 30, 0) :
       y \in MaxYear - 1 .. MaxYear, mo \in 1 .. MaxMonth, d \in {1} \cup (28 .. MaxDay),
       h \in {0, 12, 23}}
    \cup {"2023-06-01 12:30:00", "2023/06/01 12:30:00",
          "2023:06:01 12:30:00.5", "2023:06:01 12:30:00.123456",
          "2023-06-01 12:30:00.123", "2023/06/01 12:30:00.123",
          "2023:06:01 12:30:00.1234567", "2023-06-01 12:30:00.1234567",
          "2023/06/01 12:30:00.1234567",
          "x2023:06:01 12:30:00.5y", "2023:06:01 12:30:00 x",
          "2023:06:01 12:30:60", "2023:06:01 24:00:00", "2023:6:1 12:30:00",
          "2023-06:01 12:30:00", "2023-06:01 12:30:00.5", "2023:06:01  12:30:00",
          "2023:06:01 12:30:00.", "2023:06:01T12:30:00", " 2023:06:01 12:30:00",
          "0000:00:00 00:00:00", "2023.06.01 12:30:00", "unknown", " "}

\* the values the order of the three fields is tried on
PriorityStrings == {"", "2023:06:01 12:30:00", "2021-01-02 03:04:05", "unknown"}

\* the dicts with time tags: one field with each time string, and every
\* set of the three fields with empty and other values
TimeInputs ==
    {[DateTimeOriginal |-> StrValue(s)] : s \in TimeStrings}
    \cup UNION {[fields -> {StrValue(s) : s \in PriorityStrings}] :
                  fields \in (SUBSET Range(time_fields)) \ {{}}}

\* the columns extract_core_exif formats, None for a tag that is absent
FormatCoreExif(all_exif, fraction_format) ==
    LET gps_info == IF "GPSInfo" \in DOMAIN all_exif THEN all_exif.GPSInfo ELSE <<>>
    IN  [capture_time |-> CaptureTime(all_exif),
         shutter_speed |-> IF "ExposureTime" \in DOMAIN all_exif
                             THEN Some(ShutterSpeed(all_exif.ExposureTime)) ELSE NULL,
         white_balance |-> IF "WhiteBalance" \in DOMAIN all_exif
                             THEN Some(WhiteBalance(all_exif.WhiteBalance)) ELSE NULL,
         gps_latitude |-> GpsColumn(gps_info, "GPSLatitude", "GPSLatitudeRef", "S",
                                    fraction_format),
         gps_longitude |-> GpsColumn(gps_info, "GPSLongitude", "GPSLongitudeRef", "W",
                                     fraction_format)]

\* extract_core_exif is applied to the dict, by an interpreter that can or
\* cannot format a Fraction
ExtractCoreExif ==
    /\ exif_out = <<>>
    /\ \E fraction_format \in BOOLEAN :
         exif_out' = FormatCoreExif(exif_in, fraction_format)
    /\ UNCHANGED <<fs, images, intakeVars, normVars, callerVars, row, verdict, exif_in,
                   returned>>

InitFormat ==
    /\ fs = NormDisk0
    /\ images = <<>>
    /\ IntakeIdle /\ NormIdle /\ CallerIdle
    /\ row = <<>> /\ verdict = {}
    /\ exif_in \in ExposureInputs \cup WhiteBalanceInputs \cup GpsInputs
                   \cup TimeInputs
    /\ exif_out = <<>>
    /\ returned = NULL

NextFormat == ExtractCoreExif

SpecFormat == InitFormat /\ [][NextFormat]_vars

---------------------------------------------------------------------------
(* Properties of the intake batch *)

\* the rows of the catalog as the intake connection sees them
AllRows == images \o pending

\* the rows the batch has inserted so far
NewRows == SubSeq(AllRows, Len(Images0) + 1, Len(AllRows))

\* the rows the batch inserted for the i-th source file
RowsOf(i) == {k \in 1 .. Len(NewRows) :
                NewRows[k].original_filename = basename(image_files[i])}

Failed(i) == hist[i].failed # "none"

\* C1: once an intake batch over n source paths has completed, the catalog
\* holds exactly n new rows, the i-th for the i-th source file, each with
\* status success or error
C1_OneRowPerSourceFile ==
    pc = "done" =>
      /\ Len(images) = Len(Images0) + Len(image_files)
      /\ \A i \in 1 .. Len(image_files) :
           LET r == images[Len(Images0) + i]
           IN  /\ r.original_filename = basename(image_files[i])
               /\ r.status \in {"success", "error"}

\* C2: a failure of one file never aborts the batch: no exception leaves the
\* loop, in the loop the next iteration or the commit can always be taken,
\* and when run() has passed the loop every file has had its turn
C2_FailureNeverAborts ==
    /\ pc # "loop_raised"
    /\ Len(hist) = idx
    /\ pc = "loop" => idx <= Len(image_files) /\ ENABLED (ProcessFile \/ Commit)
    /\ pc \in {"done", "commit_raised"} => idx = Len(image_files)

\* C2 witness: a batch is done whose first file failed and whose second file
\* was processed after it
C2_Witness ==
    pc = "done" /\ Len(hist) = 2 /\ Failed(1) /\ ~Failed(2)

\* C3: under the timestamp policy no file materialized by the batch replaces
\* a file that was at its output_path, and no two files of the batch are
\* materialized at the same path
C3_TimestampNamesUnique ==
    rename_option = 1 =>
      /\ \A i \in 1 .. Len(hist) : ~hist[i].clobbered
      /\ \A i, j \in 1 .. Len(hist) : i # j => hist[i].wrote \cap hist[j].wrote = {}

\* C4 as claimed: under the hash policy two files with identical bytes get
\* the same new_filename whatever their original names, and two files with
\* distinct digests get different ones
C4_SameBytesSameName ==
    rename_option = 2 =>
      \A i, j \in 1 .. Len(hist) :
        (hist[i].named # {} /\ hist[j].named # {}) =>
          /\ hist[i].bytes = hist[j].bytes => hist[i].named = hist[j].named
          /\ (\A b \in hist[i].bytes, c \in hist[j].bytes : Md5(b) # Md5(c))
               => hist[i].named # hist[j].named

\* C4 amended: under the hash policy two files with identical bytes and the
\* same extension get the same new_filename, and two files with distinct
\* digests get different ones
C4_SameBytesSameExtSameName ==
    rename_option = 2 =>
      \A i, j \in 1 .. Len(hist) :
        (hist[i].named # {} /\ hist[j].named # {}) =>
          /\ (/\ hist[i].bytes = hist[j].bytes
              /\ splitext1(basename(image_files[i])) = splitext1(basename(image_files[j])))
               => hist[i].named = hist[j].named
          /\ (\A b \in hist[i].bytes, c \in hist[j].bytes : Md5(b) # Md5(c))
               => hist[i].named # hist[j].named

\* C4 witness: the hash policy has named two files of one batch that have
\* identical bytes and the same extension
C4_Witness ==
    /\ rename_option = 2 /\ Len(hist) = 2
    /\ hist[1].named # {} /\ hist[2].named # {}
    /\ hist[1].bytes = hist[2].bytes
    /\ splitext1(basename(image_files[1])) = splitext1(basename(image_files[2]))

\* C5: under the timestamp or the hash policy every file whose intake failed
\* is still at its source path, has a copy in the error directory, and has
\* an error row whose file_path is that copy and whose error_message is set
C5_FailureIsQuarantined ==
    (rename_option \in {1, 2} /\ pc \in {"loop", "done"}) =>
      \A i \in 1 .. Len(hist) :
        Failed(i) =>
          /\ Exists(fs, image_files[i])
          /\ hist[i].quar # {}
          /\ hist[i].quar \subseteq DOMAIN fs
          /\ \E k \in RowsOf(i) :
               /\ NewRows[k].status = "error"
               /\ NewRows[k].file_path = hist[i].quar
               /\ NewRows[k].error_message # NULL

\* C6: with keep_original every source path of the batch still exists with
\* the bytes it had before the batch
C6_KeepOriginalLeavesSources ==
    keep_original =>
      \A i \in 1 .. Len(image_files) :
        Exists(fs, image_files[i]) /\ fs[image_files[i]] = Disk0[image_files[i]]

---------------------------------------------------------------------------
(* Properties of the counters, of completeness and of the normalization batch *)

\* C8 as claimed: whenever the caller has read the two counters one after the
\* other, their sum is the number of rows of status success in the catalog,
\* whatever was committed in between
C8_CountersAlwaysAddUp ==
    cpc = "counted" => unprocessed_count + processed_count = total_valid(images)

\* C8 amended: on every reachable catalog the two counts taken of that same
\* catalog add up to the number of rows of status success; and the two
\* counts the caller read add up to it if both queries succeeded and nothing
\* was committed since the first one was read
C8_CountersAddUpOnOneState ==
    /\ get_unprocessed_count(images) + get_processed_count(images) = total_valid(images)
    /\ (cpc = "counted" /\ ~dirty) =>
         unprocessed_count + processed_count = total_valid(images)

\* C8 witness: the caller has read both counters on one catalog state that
\* holds complete and incomplete records
C8_Witness ==
    /\ cpc = "counted" /\ ~dirty
    /\ unprocessed_count > 0 /\ processed_count > 0

\* C9: the four places compute the one predicate "status success and all ten
\* core columns non-null" (the selection and the unprocessed counter its
\* complement among the rows of status success); nulling any core column
\* makes a row incomplete, and the nullity of another column changes nothing
C9_CompletenessIsOnePredicate ==
    \A v \in verdict :
      LET complete == row.status = "success" /\ \A c \in CoreFields : row[c] # NULL
      IN  /\ v.listed = complete
          /\ v.processed = complete
          /\ v.unprocessed = (row.status = "success" /\ ~complete)
          /\ v.selected = (row.status = "success" /\ ~complete)
          /\ \A c \in CoreFields :
               LET r == [row EXCEPT ![c] = NULL]
               IN  /\ ~is_exif_complete(r) /\ ~CountsProcessed(r)
                   /\ r.status = "success" => CountsUnprocessed(r) /\ SelectsUnprocessed(r)
          /\ \A c \in OtherColumns : \A x \in {NULL, Some("v")} :
               LET r == [row EXCEPT ![c] = x]
               IN  /\ is_exif_complete(r) = v.listed
                   /\ CountsProcessed(r) = v.processed
                   /\ CountsUnprocessed(r) = v.unprocessed
                   /\ SelectsUnprocessed(r) = v.selected

\* C9 witness: a row of status success with all ten core columns set and no
\* lens or GPS column has been classified, as complete
C9_Witness ==
    /\ verdict # {} /\ \A v \in verdict : v.listed /\ ~v.selected
    /\ row.lens_model = NULL /\ row.gps_latitude = NULL /\ row.gps_longitude = NULL

\* C10 as claimed: no step of a normalization run changes a column of a
\* record that is EXIF-complete
C10_RerunIsNoOp ==
    [][\A k \in 1 .. Len(images) :
         CountsProcessed(images[k]) => images'[k] = images[k]]_vars

\* C10 amended: no step changes a column of an EXIF-complete record in all
\* mode; in selected mode none does as long as the record's file exists, no
\* CSV export is asked for and no catalog call raises
C10_RerunInAllModeIsNoOp ==
    [][\A k \in 1 .. Len(images) :
         (/\ CountsProcessed(images[k])
          /\ \/ mode = "all"
             \/ /\ \A p \in images[k].file_path : Exists(fs, p)
                /\ ~save_csv
                /\ ~caught')
           => images'[k] = images[k]]_vars

\* C10 witness: a batch in all mode has processed its records while the
\* catalog held a complete record, which it did not select
C10_Witness ==
    /\ mode = "all" /\ npc = "loop" /\ nidx >= 1 /\ nidx = Len(batch_images)
    /\ \E k \in 1 .. Len(images) :
         /\ CountsProcessed(images[k])
         /\ \A j \in 1 .. Len(batch_images) : batch_images[j].id # images[k].id

---------------------------------------------------------------------------
(* Properties of the normalization batch: selection and failures *)

\* the ids of the records a batch still holds in its list
BatchIds(l) == {l[j].id : j \in 1 .. Len(l)}

\* the catalog holds no row of the id, or one of a status other than success
NotOfStatusSuccess(image_id) ==
    \A k \in 1 .. Len(images) : images[k].id = image_id => images[k].status # "success"

\* the step is one iteration of the loop of ExifExtractThread.run
IsNormStep == npc = "loop" /\ nidx < Len(batch_images) /\ <<npc, nidx>>' # <<npc, nidx>>

\* C11: in selected mode a requested id whose row is not of status success
\* (status error, or no row) is left out of the batch's list with a log
\* notification when the batch selects its records (the notification of the
\* id, or that of the failure to open the catalog, which ends the batch),
\* and no iteration of the loop processes a record that is not of status
\* success or changes a column of such a record
C11_NonSuccessIdsAreSkipped ==
    [][mode = "selected" =>
         /\ (npc = "started" /\ npc' # "started") =>
              \A image_id \in Range(image_ids) :
                NotOfStatusSuccess(image_id) =>
                  /\ image_id \notin BatchIds(batch_images')
                  /\ LogEntry("skipped", image_id) \in log' \/ BatchError \in log'
         /\ IsNormStep =>
              \A image_id \in 1 .. MaxRows :
                NotOfStatusSuccess(image_id) =>
                  /\ batch_images[nidx + 1].id # image_id
                  /\ RowOf(images', image_id) = RowOf(images, image_id)]_vars

\* C11 witness: a batch in selected mode was asked for a record of status
\* error and for one of status success; it logged the first and processed
\* the second
C11_Witness ==
    /\ mode = "selected" /\ npc = "loop" /\ nidx = 1 /\ Len(batch_images) = 1
    /\ \E r \in Range(images) :
         r.status = "error" /\ LogEntry("skipped", r.id) \in log

\* the file the next record of the batch refers to is not on the disk
NextFileMissing == \A p \in batch_images[nidx + 1].file_path : ~Exists(fs, p)

\* C12: an iteration on a record whose file is missing leaves the record
\* with status error and the file-not-found message and goes on to the next
\* record; and no step of any batch changes a column of a record of status
\* error or has such a record ahead in its list
C12_MissingFileIsTerminalError ==
    [][/\ (IsNormStep /\ NextFileMissing) =>
            /\ \A r \in RowOf(images', batch_images[nidx + 1].id) :
                 r.status = "error" /\ r.error_message = Some("file not found")
            /\ npc' = "loop" /\ nidx' = nidx + 1
       /\ \A k \in 1 .. Len(images) :
            images[k].status = "error" =>
              /\ images'[k] = images[k]
              /\ \A j \in nidx' + 1 .. Len(batch_images') :
                   batch_images'[j].id # images[k].id]_vars

\* the row holds what steps 2-4 store of the file at the path: every field
\* extracted from the file and, when the export is asked for, the CSV's path
Persisted(r, file_path) ==
    LET exif_data == extract_core_exif(fs[file_path])
    IN  /\ \A c \in DOMAIN exif_data : exif_data[c] # NULL => r[c] = exif_data[c]
        /\ save_csv => r.exif_csv_path = Some(CsvPath(file_path))

\* C13: an iteration on a record whose file exists either stores what it
\* extracted (and exported) in the record, or, if extracting, exporting or
\* persisting failed, leaves the record marked status error with the
\* failure's detail; in both cases the batch goes on to the next record
C13_FailedRecordIsMarkedError ==
    [][(IsNormStep /\ ~NextFileMissing) =>
         /\ npc' = "loop" /\ nidx' = nidx + 1
         /\ \A r \in RowOf(images', batch_images[nidx + 1].id) :
              \/ r.status = "error" /\ r.error_message # NULL
              \/ \E p \in batch_images[nidx + 1].file_path : Persisted(r, p)]_vars

---------------------------------------------------------------------------
(* Properties of the intake batch: failures of the catalog *)

\* the INSERT of the success row of a file already processed has failed
InsertHasFailed == \E i \in 1 .. Len(hist) : hist[i].failed = "insert failed"

\* C14: a failed catalog write is fatal to the intake batch: once an INSERT
\* has failed no later step of the batch copies, renames or removes a file,
\* and the batch does not end as a completed one
C14_StorageFailureIsFatal ==
    [][InsertHasFailed => fs' = fs /\ pc' # "done"]_vars

\* C15: a request that keeps the original under a renaming policy and names
\* no valid output directory (none that exists, or the current directory) is
\* rejected: no thread is started, no file or directory is touched and no
\* row is inserted
C15_NoDestinationIsRejected ==
    (/\ pc # "idle" /\ keep_original /\ rename_option # 0
     /\ (output_dir \notin Dirs0 \/ output_dir = Cwd))
      => /\ pc = "rejected"
         /\ fs = Disk0 /\ dirs = Dirs0
         /\ images = Images0 /\ pending = <<>> /\ hist = <<>>

\* C15 witness: such a request, with images selected, has been rejected
C15_Witness ==
    /\ pc = "rejected" /\ image_files # <<>>
    /\ keep_original /\ rename_option = 2 /\ output_dir = GoneDir

---------------------------------------------------------------------------
(* Properties of the callers: one batch at a time, completion *)

\* C16: at most one batch is active on the catalog: from extract_exif until
\* on_processing_finished, while the controls of the normalization window
\* are disabled, no intake batch is at work on the same catalog, so none
\* commits a row
C16_OneBatchAtATime ==
    [][~extract_btn => Len(images') = Len(images)]_vars

\* C17: every started intake batch ends with exactly one completion
\* notification, after which the controls of the window are enabled again,
\* whether or not the catalog could be opened and committed
C17_EveryBatchCompletes ==
    /\ [](finished <= 1)
    /\ (pc = "started") ~> (finished = 1 /\ process_btn)

---------------------------------------------------------------------------
(* Properties of the formats *)

\* C18: a rational exposure time n/d becomes the shutter_speed "1/<d>s"
\* when n = 1 and "<n>/<d>s" otherwise: the column reads as the decimal
\* numerals of n and of d around a slash, followed by the unit s; 1/250
\* becomes "1/250s" and 3/10 becomes "3/10s"
C18_ShutterSpeedOfRational ==
    (exif_out # <<>> /\ "ExposureTime" \in DOMAIN exif_in
       /\ exif_in.ExposureTime.type = "rational") =>
      \A s \in exif_out.shutter_speed :
        LET n == exif_in.ExposureTime.numerator
            d == exif_in.ExposureTime.denominator
            slash == Find(s, "/")
            before == SubSeq(s, 1, slash - 1)
            after == SubSeq(s, slash + 1, Len(s) - 1)
        IN  /\ exif_out.shutter_speed # NULL
            /\ slash > 1 /\ SubSeq(s, Len(s), Len(s)) = "s"
            /\ IsDigit(before) /\ ParseInt(before) = n /\ Len(before) = Len(ToString(n))
            /\ IsDigit(after) /\ ParseInt(after) = d /\ Len(after) = Len(ToString(d))
            /\ (n = 1 /\ d = 250) => s = "1/250s"
            /\ (n = 3 /\ d = 10) => s = "3/10s"
            /\ n = 1 => before = "1"

\* C18 witness: the exposure times 1/250 and 3/10 have been formatted
C18_Witness ==
    /\ exif_out # <<>> /\ "ExposureTime" \in DOMAIN exif_in
    /\ exif_in.ExposureTime \in {Rational(1, 250), Rational(3, 10)}
    /\ exif_out.shutter_speed # NULL

\* the sign and the millionths a string of the form [-]<digits>.<6 digits>
\* stands for
ParseFixed6(s) ==
    LET neg == Len(s) > 0 /\ SubSeq(s, 1, 1) = "-"
        body == IF neg THEN SubSeq(s, 2, Len(s)) ELSE s
        dot == Find(body, ".")
        whole == SubSeq(body, 1, dot - 1)
        decimals == SubSeq(body, dot + 1, Len(body))
    IN  [wellformed |-> dot > 1 /\ IsDigit(whole) /\ IsDigit(decimals) /\ Len(decimals) = 6,
         negative |-> neg,
         micro |-> ParseInt(whole) * 1000000 + ParseInt(decimals)]

\* the column is what the claim says of the coordinate and its reference
IsDecimalDegrees(column, gps_info, coordinate, reference, negative_ref) ==
    IF coordinate \in DOMAIN gps_info /\ reference \in DOMAIN gps_info
      THEN LET c == gps_info[coordinate]
               k == NumberOf(c[1]) * 3600 + NumberOf(c[2]) * 60 + NumberOf(c[3])
               south == gps_info[reference] = negative_ref
           IN  /\ column # NULL
               /\ \A s \in column :
                    LET p == ParseFixed6(s)
                        off == 9 * p.micro - 2500 * k
                    IN  /\ p.wellformed
                        /\ 2 * off <= 9 /\ 2 * off >= -9
                        /\ p.micro # 0 => p.negative = south
                        /\ (k = 40 * 3600 + 26 * 60 + 46) =>
                             s = IF south THEN "-40.446111" ELSE "40.446111"
      ELSE column = NULL

\* C19: a coordinate (D, M, S) with its reference becomes the decimal string
\* of D + M/60 + S/3600 rounded to six decimals, negated exactly for the
\* reference S (latitude) or W (longitude); (40, 26, 46) gives "40.446111"
\* with N and "-40.446111" with S; without the coordinate or without the
\* reference the column stays null
C19_GpsIsDecimalDegrees ==
    (exif_out # <<>> /\ "GPSInfo" \in DOMAIN exif_in) =>
      /\ IsDecimalDegrees(exif_out.gps_latitude, exif_in.GPSInfo,
                          "GPSLatitude", "GPSLatitudeRef", "S")
      /\ IsDecimalDegrees(exif_out.gps_longitude, exif_in.GPSInfo,
                          "GPSLongitude", "GPSLongitudeRef", "W")

\* the white balance is the code: an integer, or a string that is its
\* decimal numeral, leading zeros allowed
IsCode(wb, code) ==
    \/ wb.type = "int" /\ wb.val = code
    \/ wb.type = "str" /\ IsDigit(wb.val) /\ ParseInt(wb.val) = code

\* the column is the value's own string form
PassedThrough(column, wb) ==
    column = Some(IF wb.type = "int" THEN ToString(wb.val) ELSE wb.val)

\* C20 as claimed: the code 0 becomes "auto" and the code 1 "manual", also
\* as a digit string, and every other value is passed through as its string
C20_WhiteBalanceAutoManual ==
    (exif_out # <<>> /\ "WhiteBalance" \in DOMAIN exif_in) =>
      LET wb == exif_in.WhiteBalance
      IN  IF IsCode(wb, 0) THEN exif_out.white_balance = Some("auto")
          ELSE IF IsCode(wb, 1) THEN exif_out.white_balance = Some("manual")
          ELSE PassedThrough(exif_out.white_balance, wb)

\* C20 amended: the code 0 becomes the Chinese label of automatic and the
\* code 1 that of manual, also as a digit string, and every other value is
\* passed through as its string
C20_WhiteBalanceLabels ==
    (exif_out # <<>> /\ "WhiteBalance" \in DOMAIN exif_in) =>
      LET wb == exif_in.WhiteBalance
      IN  IF IsCode(wb, 0) THEN exif_out.white_balance = Some(AutoLabel)
          ELSE IF IsCode(wb, 1) THEN exif_out.white_balance = Some(ManualLabel)
          ELSE PassedThrough(exif_out.white_balance, wb)

\* C20 witness: the code 1, given as a digit string, has been formatted
C20_Witness ==
    /\ exif_out # <<>> /\ "WhiteBalance" \in DOMAIN exif_in
    /\ exif_in.WhiteBalance = StrValue("1")
    /\ exif_out.white_balance = Some(ManualLabel)

\* the string is a time in one of the layouts: year, month, day with one of
\* the separators : - /, a blank and hour:minute:second, alone or followed
\* by a point and a fraction of the second
MatchesLayout(s) ==
    LET dot == Find(s, ".")
    IN  \E sep \in {":", "-", "/"} :
          \/ Strptime(s, sep, FALSE) # NULL
          \/ /\ dot > 0 /\ IsDigit(SubSeq(s, dot + 1, Len(s)))
             /\ Strptime(SubSeq(s, 1, dot - 1), sep, FALSE) # NULL

\* the value of the first of the three time fields that is not empty
FirstNonEmpty(all_exif) ==
    LET val(f) == IF f \in DOMAIN all_exif THEN all_exif[f].val ELSE ""
    IN  IF val("DateTimeOriginal") # "" THEN val("DateTimeOriginal")
        ELSE IF val("DateTimeDigitized") # "" THEN val("DateTimeDigitized")
        ELSE val("DateTime")

\* C21: capture_time comes from the first non-empty of the fields original,
\* digitized, generic: null if all are empty, the parsed timestamp if the
\* value is a time in a recognized layout, the value itself otherwise; a
\* standard string of an existing date parses to that date and time, and
\* formatting the timestamp in the standard layout gives the string back
C21_CaptureTimeParsedOrRaw ==
    (exif_out # <<>> /\ Range(time_fields) \cap DOMAIN exif_in # {}) =>
      LET s == FirstNonEmpty(exif_in)
      IN  /\ s = "" => exif_out.capture_time = NULL
          /\ s # "" =>
               /\ exif_out.capture_time # NULL
               /\ IF MatchesLayout(s)
                    THEN \A v \in exif_out.capture_time : v.type = "datetime"
                    ELSE exif_out.capture_time = Some(StrValue(s))
          /\ \A y \in MaxYear - 1 .. MaxYear, mo \in 1 .. 12, h \in 0 .. 23 :
               \A d \in 1 .. DaysIn(y, mo) :
                 s = Standard(y, mo, d, h, 30, 0) =>
                   /\ exif_out.capture_time = Some(DateTime(y, mo, d, h, 30, 0, 0))
                   /\ \A v \in exif_out.capture_time : Strftime(v) = s
---------------------------------------------------------------------------
(* Properties of the catalog helpers *)

\* C22: no call of a catalog helper of the normalization makes a stored
\* canonical field null: a field for which the extraction gave None keeps
\* its stored value, a field that is not null is not null afterwards, and a
\* record that is EXIF-complete is still so after any call that leaves its
\* status success
C22_NeverOverwritesWithNull ==
    [][\A k \in 1 .. Len(images) :
         /\ \A c \in ExifFields :
              /\ (exif_out' # <<>> /\ exif_out'[c] = NULL) => images'[k][c] = images[k][c]
              /\ images[k][c] # NULL => images'[k][c] # NULL
         /\ (CountsProcessed(images[k]) /\ images'[k].status = "success")
              => CountsProcessed(images'[k])]_vars

\* C22 witness: an update has written the size of an image without
\* metadata into a record whose camera model was stored before; the
\* extraction gave no camera model, the stored one is still there
C22_Witness ==
    /\ exif_out # <<>> /\ exif_out.camera_model = NULL /\ exif_out.width # NULL
    /\ Len(images) = 1
    /\ images[1].camera_model # NULL
    /\ images[1].width = exif_out.width

---------------------------------------------------------------------------
(* Properties of the normalization batch: files without metadata *)

\* the file of the next record of the batch exists and carries no
\* embedded metadata
NextHasNoMetadata ==
    \A p \in batch_images[nidx + 1].file_path :
      Exists(fs, p) /\ fs[p] = StoredBytes(2)

\* the ids of the batch's list are distinct
EachRecordOnce ==
    \A i, j \in 1 .. Len(batch_images) :
      i # j => batch_images[i].id # batch_images[j].id

---------------------------------------------------------------------------
(* Properties of the intake batch: the commit *)

\* the batch is past its commit
Committed(p) == p \in {"done", "handled"}

\* C24: the inserts of an intake batch become durable together, by the one
\* commit at the end of run(): up to that commit, and when the thread has
\* ended before it or in it, the durable catalog is the catalog from before
\* the batch; the commit adds every row the batch has inserted, in order,
\* and changes no row that was there; nothing changes the catalog after it
C24_OneFinalCommit ==
    [][/\ ~Committed(pc') => images' = Images0
       /\ (~Committed(pc) /\ Committed(pc')) =>
            /\ images' = Images0 \o pending
            /\ pc = "loop" /\ idx = Len(image_files)
       /\ Committed(pc) => images' = images]_vars

\* C24 witness: a batch of two files has inserted a row for each and has
\* committed: both rows are in the catalog behind the row from before
C24_Witness ==
    /\ pc = "done" /\ Len(hist) = 2
    /\ Len(images) = Len(Images0) + 2
    /\ SubSeq(images, 1, Len(Images0)) = Images0
    /\ pending = <<>>

---------------------------------------------------------------------------
(* Properties of the intake batch: the error directory *)

\* C25: every copy into the error directory is written to a path at which
\* no file was before the copy, also when several files of the same name
\* fail in one batch and within one second
C25_QuarantineNeverOverwrites ==
    [][Len(hist') > Len(hist) =>
         \A p \in hist'[Len(hist')].quar : ~Exists(fs, p)]_vars

---------------------------------------------------------------------------
(* Properties of both batches: the progress notifications *)

\* the normalization batch has returned from the end of run(), not from the
\* except clause around it all
RanToEnd == npc = "done" /\ BatchError \notin log

\* C26: in the intake batch and in the normalization batch every progress
\* value is in 0..100 and none is below the one before it; when a batch
\* has run to its end the last value is 100, also for the normalization
\* batch that selected no record
C26_ProgressRisesTo100 ==
    [][/\ \A b \in progress' \cup nprogress' : b \in 0 .. 100
       /\ \A a \in progress, b \in progress' : a <= b
       /\ \A a \in nprogress, b \in nprogress' : a <= b
       /\ pc' = "done" => progress' = Some(100)
       /\ RanToEnd' => nprogress' = Some(100)]_vars

\* C26 witness: an intake batch of two files has been through both, the
\* value 0 behind it and 50 the last one emitted before the commit
C26_Witness ==
    /\ pc = "loop" /\ Len(image_files) = 2 /\ idx = 2
    /\ progress = Some(50)

---------------------------------------------------------------------------
(* Properties of the catalog under both batches *)

StatusConsistent(r) ==
    /\ r.status \in {"success", "error"}
    /\ r.error_message # NULL <=> r.status = "error"

\* C27: before and after every step of the intake batch and of the
\* normalization batch every row has the status success or error and an
\* error message exactly when its status is error, and a row whose status
\* is error is there with that status after the step
C27_StatusAndMessage ==
    [][/\ \A i \in 1 .. Len(AllRows) : StatusConsistent(AllRows[i])
       /\ \A i \in 1 .. Len(AllRows') : StatusConsistent(AllRows'[i])
       /\ \A i \in 1 .. Len(images) :
            images[i].status = "error" =>
              i <= Len(images') /\ images'[i].status = "error"]_vars

\* C27 witness: the normalization batch has marked the record that was
\* taken in as a success, and the intake has added an error row since
C27_Witness ==
    /\ ~IntakeProgram
    /\ images[1].status = "error" /\ images[1].error_message # NULL
    /\ \E i \in 2 .. Len(images) : images[i].status = "error"

\* the columns in which two versions of a row differ
Changed(r, q) == {c \in DOMAIN r : r[c] # q[c]}

\* the columns the normalization stage may write
NormalizedColumns == ExifFields \cup {"exif_csv_path", "status", "error_message"}

NoExifYet(r) == \A c \in ExifFields \cup {"exif_csv_path"} : r[c] = NULL

\* C28: no step takes a row out of the catalog; a step that changes a row
\* that was there is an iteration of the normalization loop, the row is the
\* selected record of that iteration and only EXIF fields, exif_csv_path,
\* status and error_message change (id, original_filename, file_name,
\* file_path and upload_time stay); the steps of the normalization thread
\* insert nothing; every row that comes in, committed or not yet, has every
\* EXIF field null
C28_OnlyNormalizationWritesExif ==
    [][/\ Len(images') >= Len(images)
       /\ \A i \in 1 .. Len(images) :
            Changed(images[i], images'[i]) # {} =>
              /\ npc = "loop" /\ nidx < Len(batch_images)
              /\ images[i].id = batch_images[nidx + 1].id
              /\ Changed(images[i], images'[i]) \subseteq NormalizedColumns
       /\ (npc' # npc \/ nidx' # nidx) => Len(images') = Len(images)
       /\ \A i \in Len(images) + 1 .. Len(images') : NoExifYet(images'[i])
       /\ \A i \in 1 .. Len(pending') : NoExifYet(pending'[i])]_vars

\* C28 witness: the normalization batch has written EXIF fields into the
\* record taken in first, whose name, path and time are as they were, and
\* the intake has inserted a row since, its EXIF fields null
C28_Witness ==
    /\ ~IntakeProgram
    /\ Len(images) >= 2
    /\ images[1].camera_model # NULL
    /\ Changed(NormImages0[1], images[1]) \subseteq NormalizedColumns
    /\ NoExifYet(images[2])

---------------------------------------------------------------------------
(* Properties of the intake batch: renaming in place *)

\* the file at path p, there before the step, is gone or has other bytes
\* after it
Replaced(p) == ~Exists(fs', p) \/ fs'[p] # fs[p]

\* C29: when the batch renames in place, a file the iteration removes at
\* the target path has the bytes of the file being renamed, and the bytes of
\* every file the iteration removes or overwrites are in a file of the same
\* directory after it
C29_RenameInPlaceLosesNoContent ==
    [][(~keep_original /\ Len(hist') > Len(hist)) =>
         LET image_file == image_files[idx + 1]
         IN  /\ \A p \in hist'[Len(hist')].wrote :
                  (Exists(fs, p) /\ p # image_file /\ Exists(fs, image_file)) =>
                    fs[p] = fs[image_file]
             /\ \A p \in DOMAIN fs :
                  (dirname(p) = dirname(image_file) /\ Replaced(p)) =>
                    \E q \in DOMAIN fs' :
                      dirname(q) = dirname(p) /\ fs'[q] = fs[p]]_vars

---------------------------------------------------------------------------
(* Properties of the catalog helpers: failures *)

\* C30: every call of update_image_exif_in_db and of mark_image_as_error
\* ends by returning True or False, never in an exception; when the catalog
\* cannot be opened it returns False; and a call that does not return True
\* leaves the catalog as it was
C30_FailureReturnsFalse ==
    [][\A call \in returned' :
         /\ call.ret \in {"True", "False"}
         /\ call.db = "noconn" => call.ret = "False"
         /\ call.ret # "True" => images' = images]_vars

=============================================================================
